---------------------------- MODULE Spec2Model ----------------------------
(***************************************************************************)
(* A model of the S3mini client (S3.ts, utils.ts):                         *)
(*   - runInBatches, the bounded-concurrency batch runner (SpecBatch);     *)
(*   - the S3mini operations, from validation over _signedRequest and      *)
(*     _sendRequest to the interpretation of the response (Spec).          *)
(* JavaScript strings are sequences of one-character strings, so that      *)
(* trim, the entity decoding and the quote stripping are computed.         *)
(***************************************************************************)
EXTENDS Integers, Sequences, FiniteSets, TLC

(***************************************************************************)
(* Bounds of the model.                                                    *)
(***************************************************************************)
MaxTasks == 4
MaxBatch == 3
MaxInterval == 2
MaxClock == 4
MaxSlashes == 2

VARIABLES
  \* ---- runInBatches (utils.ts) ----
  tasks,          \* the input iterable: the behaviour of each task function
  batchSize,      \* the batchSize argument
  minIntervalMs,  \* the minIntervalMs argument
  allResults,     \* const allResults
  batch,          \* let batch (task indices)
  batchFns,       \* the argument of the running executeBatch call
  taskIdx,        \* position of the for..of iterator
  pcRun,          \* where runInBatches stands
  inLoop,         \* which executeBatch call site is running
  invoked,        \* how often each task function has been called
  promise,        \* state of the promise each task returned
  start,          \* const start of executeBatch
  wakeAt,         \* when the pacing timer is due
  now,            \* Date.now()
  starts,         \* history: every executeBatch call, with its start time
  failure         \* the reason runInBatches rejected with

batchVars == <<tasks, batchSize, minIntervalMs, allResults, batch, batchFns,
               taskIdx, pcRun, inLoop, invoked, promise, start, wakeAt, now,
               starts, failure>>

VARIABLES
  \* ---- one call of an operation of S3mini (S3.ts) ----
  bucket,         \* the provider: how many objects it holds, how it writes them
  call,           \* the operation called, with its arguments
  pc,             \* "idle", "fetch" (awaiting fetch), "done"
  request,        \* the request handed to fetch
  remaining,      \* let remaining of listObjects
  token,          \* let token of listObjects
  all,            \* const all of listObjects
  outcome,        \* what the call returned or threw
  sent,           \* history: every request sent, with all.length at that time
  answers,        \* history: every response fetch resolved with
  props,          \* accessKeyId, secretAccessKey, endpoint, region, logger
  logs            \* history: every entry handed to the logger

clientVars == <<bucket, call, pc, request, remaining, token, all, outcome,
                sent, answers, props, logs>>

VARIABLES
  \* ---- one application of a function of utils.ts or of a helper ----
  fnName,         \* the function applied, "none" before
  fnInput,        \* its argument
  fnOutput        \* what it returned

pureVars == <<fnName, fnInput, fnOutput>>

VARIABLES
  \* ---- several uploadPart calls of one client at the same time ----
  flights,        \* per call: its arguments, request, position and outcome
  arrivals        \* history: the calls in the order fetch settled them

uploadVars == <<flights, arrivals>>

vars == <<batchVars, clientVars, pureVars, uploadVars>>

(***************************************************************************)
(* JavaScript values and strings                                           *)
(***************************************************************************)
\* A value a caller may pass for a string parameter.
JsString(s) == [type |-> "string", str |-> s, num |-> 0]
JsNumber(n) == [type |-> "number", str |-> <<>>, num |-> n]
\* A Buffer holding the bytes b.
JsBuffer(b) == [type |-> "buffer", str |-> b, num |-> 0]
JsNull == [type |-> "null", str |-> <<>>, num |-> 0]
JsUndefined == [type |-> "undefined", str |-> <<>>, num |-> 0]

\* ToBoolean of such a value: if (key), if (!uploadId).
Truthy(v) ==
  CASE v.type = "string" -> v.str # <<>>
    [] v.type = "number" -> v.num # 0
    [] v.type = "buffer" -> TRUE
    [] OTHER -> FALSE

\* String.prototype.trim
Trim(s) ==
  LET IsSpace(c) == c \in {" "}
      RECURSIVE TrimStart(_)
      TrimStart(t) ==
        IF t # <<>> /\ IsSpace(Head(t)) THEN TrimStart(Tail(t)) ELSE t
      RECURSIVE TrimEnd(_)
      TrimEnd(t) ==
        IF t # <<>> /\ IsSpace(t[Len(t)])
          THEN TrimEnd(SubSeq(t, 1, Len(t) - 1))
          ELSE t
  IN TrimEnd(TrimStart(s))

StartsWith(s, pre) == Len(s) >= Len(pre) /\ SubSeq(s, 1, Len(pre)) = pre

EndsWith(s, suf) ==
  Len(s) >= Len(suf) /\ SubSeq(s, Len(s) - Len(suf) + 1, Len(s)) = suf

DigitChars == <<"0", "1", "2", "3", "4", "5", "6", "7", "8", "9">>

\* String(n) of a non-negative integer.
RECURSIVE NumToText(_)
NumToText(n) ==
  IF n < 10 THEN <<DigitChars[n + 1]>>
  ELSE NumToText(n \div 10) \o <<DigitChars[(n % 10) + 1]>>

\* The number a provider reads from a decimal parameter.
RECURSIVE TextToNum(_)
TextToNum(s) ==
  LET DigitValue(c) == (CHOOSE k \in 1..10 : DigitChars[k] = c) - 1
  IN IF s = <<>> THEN 0
     ELSE 10 * TextToNum(SubSeq(s, 1, Len(s) - 1)) + DigitValue(s[Len(s)])

(***************************************************************************)
(* sanitizeETag, unescapeXml, parseXml (utils.ts)                          *)
(***************************************************************************)
\* Only the literal double quote counts as a quote.
QuoteTokensLiteralOnly == {<<"\"">>}

\* ("|&quot;|&#34;) of the pattern of sanitizeETag
QuoteTokens ==
  {<<"\"">>, <<"&", "q", "u", "o", "t", ";">>, <<"&", "#", "3", "4", ";">>}

\* etag.replace(/^("|&quot;|&#34;)|("|&quot;|&#34;)$/g, ''): the leading
\* alternative, then the trailing one; the matches do not overlap, so the
\* trailing token is looked for in what the leading one left.
SanitizeETag(etag) ==
  LET StripLeadingQuote(s) ==
        LET hit == {q \in QuoteTokens : StartsWith(s, q)}
        IN IF hit = {} THEN s
           ELSE SubSeq(s, Len(CHOOSE q \in hit : TRUE) + 1, Len(s))
      StripTrailingQuote(s) ==
        LET hit == {q \in QuoteTokens : EndsWith(s, q)}
        IN IF hit = {} THEN s
           ELSE SubSeq(s, 1, Len(s) - Len(CHOOSE q \in hit : TRUE))
  IN StripTrailingQuote(StripLeadingQuote(etag))

EntityMap ==
  << [from |-> <<"&", "q", "u", "o", "t", ";">>, to |-> "\""],
     [from |-> <<"&", "a", "p", "o", "s", ";">>, to |-> "'"],
     [from |-> <<"&", "l", "t", ";">>, to |-> "<"],
     [from |-> <<"&", "g", "t", ";">>, to |-> ">"],
     [from |-> <<"&", "a", "m", "p", ";">>, to |-> "&"] >>

\* value.replace(/&(quot|apos|lt|gt|amp);/g, m => entityMap[m])
RECURSIVE UnescapeXml(_)
UnescapeXml(value) ==
  IF value = <<>> THEN <<>>
  ELSE LET hit == {k \in 1..Len(EntityMap) :
                      StartsWith(value, EntityMap[k].from)}
       IN IF hit = {}
            THEN <<Head(value)>> \o UnescapeXml(Tail(value))
            ELSE LET e == EntityMap[CHOOSE k \in hit : TRUE]
                 IN <<e.to>> \o
                      UnescapeXml(SubSeq(value, Len(e.from) + 1, Len(value)))

\* A well-formed document of the provider: text, or a run of elements. An
\* element is <p r>inner</p r>, p being the first character of its tag.
XText(s) == [kind |-> "text", text |-> s, elems |-> <<>>]
XElems(es) == [kind |-> "elems", text |-> <<>>, elems |-> es]
\* A request body that is a Buffer holding the bytes s.
XBuffer(s) == [kind |-> "buffer", text |-> s, elems |-> <<>>]
Elem(p, r, inner) == [p |-> p, r |-> r, inner |-> inner]
Leaf(p, r, s) == Elem(p, r, XText(s))

\* A decoded value: a string, a map of children, a sequence, or undefined.
VStr(s) == [t |-> "str", s |-> s, m |-> <<>>, a |-> <<>>]
VMap(m) == [t |-> "map", s |-> <<>>, m |-> m, a |-> <<>>]
VArr(a) == [t |-> "arr", s |-> <<>>, m |-> <<>>, a |-> a]
VUndef == [t |-> "undef", s |-> <<>>, m |-> <<>>, a |-> <<>>]

\* prefix.toLowerCase()
Lower(c) ==
  CASE c = "C" -> "c" [] c = "E" -> "e" [] c = "I" -> "i" [] c = "K" -> "k"
    [] c = "L" -> "l" [] c = "M" -> "m" [] c = "N" -> "n" [] c = "P" -> "p"
    [] c = "S" -> "s" [] c = "U" -> "u" [] c = "B" -> "b"
    [] OTHER -> c

\* Whether the text of a document holds "<" followed by the character p,
\* which the lookahead (?!<\1) of RE_TAG refuses inside an element.
RECURSIVE HoldsOpenTag(_, _)
HoldsOpenTag(doc, p) ==
  \E k \in 1..Len(doc.elems) :
    doc.elems[k].p = p \/ HoldsOpenTag(doc.elems[k].inner, p)

\* The successive matches of RE_TAG.exec over a run of elements. RE_TAG
\* matches at an element when its inner text holds no "<" followed by the
\* first character of its own tag; where an element does not match, the
\* scan goes on inside it.
RECURSIVE Matches(_)
Matches(es) ==
  IF es = <<>> THEN <<>>
  ELSE (IF ~HoldsOpenTag(Head(es).inner, Head(es).p) THEN <<Head(es)>>
        ELSE Matches(Head(es).inner.elems)) \o Matches(Tail(es))

\* The result map after one more match: first occurrence scalar, second
\* promotes to a pair, later ones are pushed.
Accumulate(result, fullKey, node) ==
  IF fullKey \notin DOMAIN result THEN (fullKey :> node) @@ result
  ELSE IF result[fullKey].t = "arr"
    THEN [result EXCEPT ![fullKey] = VArr(Append(@.a, node))]
    ELSE [result EXCEPT ![fullKey] = VArr(<<@, node>>)]

RECURSIVE ParseXml(_)
RECURSIVE ParseMatches(_, _)
\* The while loop of parseXml over the matches ms, from the map result.
ParseMatches(ms, result) ==
  IF ms = <<>> THEN result
  ELSE LET e == Head(ms)
           inner == e.inner
           node == IF inner.kind = "text" /\ inner.text = <<>>
                     THEN VStr(<<>>)
                     ELSE ParseXml(inner)
       IN ParseMatches(Tail(ms), Accumulate(result, Lower(e.p) \o e.r, node))

\* parseXml(input)
ParseXml(input) ==
  LET result == ParseMatches(Matches(input.elems), <<>>)
  IN IF DOMAIN result # {} THEN VMap(result)
     ELSE VStr(UnescapeXml(input.text))

\* 'k' in v, for an object v
HasKey(v, k) == v.t = "map" /\ k \in DOMAIN v.m

\* v.k
Get(v, k) == IF HasKey(v, k) THEN v.m[k] ELSE VUndef

\* ToBoolean of a decoded value
VTruthy(v) ==
  CASE v.t = "str" -> v.s # <<>>
    [] v.t = "undef" -> FALSE
    [] OTHER -> TRUE

(***************************************************************************)
(* Errors (utils.ts: S3Error, S3NetworkError, S3ServiceError)              *)
(***************************************************************************)
\* An optional string property, such as err.code or a response header.
Absent == [present |-> FALSE, v |-> ""]
Present(v) == [present |-> TRUE, v |-> v]

NoCause == [present |-> FALSE, code |-> Absent]

\* A header that is absent, or present with a text value.
NoHeader == [present |-> FALSE, v |-> <<>>]

\* new TypeError(msg), new Error(msg); detail is what is appended to msg.
TypeError(msg) ==
  [name |-> "TypeError", message |-> msg, detail |-> VUndef, code |-> Absent,
   cause |-> NoCause]
PlainError(msg, detail) ==
  [name |-> "Error", message |-> msg, detail |-> detail, code |-> Absent,
   cause |-> NoCause]

\* new U.S3ServiceError(msg, status, serviceCode, body)
S3ServiceError(status, serviceCode, body) ==
  [name |-> "S3ServiceError", message |-> "S3 returned", detail |-> VUndef,
   code |-> Present(serviceCode), cause |-> NoCause, status |-> status,
   serviceCode |-> serviceCode, body |-> body]

\* new U.S3NetworkError(msg, code, cause)
S3NetworkError(msg, code, cause) ==
  [name |-> "S3NetworkError", message |-> msg, detail |-> VUndef,
   code |-> code,
   cause |-> [present |-> TRUE, code |-> cause.code, error |-> cause]]

\* extractErrCode(e): e.code when it is a string, else e.cause.code when
\* that is a string, else undefined.
ExtractErrCode(e) ==
  IF e.code.present THEN e.code
  ELSE IF e.cause.present /\ e.cause.code.present THEN e.cause.code
  ELSE Absent

(***************************************************************************)
(* Requests and responses                                                  *)
(***************************************************************************)
EmptyBody == XText(<<>>)
EmptyMap == <<>>

JSON_CONTENT_TYPE == <<"application/json">>
XML_CONTENT_TYPE == <<"application/xml">>
DEFAULT_STREAM_CONTENT_TYPE == <<"application/octet-stream">>

\* What an operation does next: throw, or hand a request to _sendRequest.
Throw(e) == [throws |-> TRUE, error |-> e, logged |-> FALSE]
\* this._log('error', msg); throw new TypeError(msg)
LogAndThrow(e) == [throws |-> TRUE, error |-> e, logged |-> TRUE]
Send(r) == [throws |-> FALSE, request |-> r]

\* What an operation ends with.
\* A returned value is tagged with what it is: "null", "boolean", "text",
\* "number", "response", "object", "array", "part", "etagdata", "aborted".
Returned(is, v) == [kind |-> "returned", value |-> [is |-> is, v |-> v]]
Threw(e) == [kind |-> "threw", error |-> e]
NoOutcome == [kind |-> "none"]

\* _checkKey throws: typeof key !== 'string' || key.trim().length === 0
CheckKeyThrows(key) == key.type # "string" \/ Len(Trim(key.str)) = 0

\* if (key) { this._checkKey(key); } of _signedRequest: '' is let through
\* for the bucket-level operations, and with it every falsy key.
SignedRequestKeyThrows(key) == Truthy(key) /\ CheckKeyThrows(key)

IfHeaders == {"if-match", "if-none-match", "if-modified-since",
              "if-unmodified-since"}

\* key.toLowerCase() of an option name
LowerName(n) ==
  CASE n = "If-Match" -> "if-match"
    [] n = "If-None-Match" -> "if-none-match"
    [] n = "Content-Type" -> "content-type"
    [] n = "Content-Length" -> "content-length"
    [] n = "Authorization" -> "authorization"
    [] n = "accessKeyId" -> "accesskeyid"
    [] n = "secretAccessKey" -> "secretaccesskey"
    [] n = "sessionToken" -> "sessiontoken"
    [] n = "Password" -> "password"
    [] n = "versionId" -> "versionid"
    [] n = "uploadId" -> "uploadid"
    [] n = "partNumber" -> "partnumber"
    [] OTHER -> n

\* _filterIfHeaders(opts)
FilteredOpts(opts) ==
  [k \in {n \in DOMAIN opts : LowerName(n) \notin IfHeaders} |-> opts[k]]
ConditionalHeaders(opts) ==
  [k \in {n \in DOMAIN opts : LowerName(n) \in IfHeaders} |-> opts[k]]

(***************************************************************************)
(* Configuration and logging (S3.ts: constructor, _sanitize, _log)         *)
(***************************************************************************)
\* The configurations a client is given, by the constructor and by
\* setProps: two that differ in every field. An endpoint is the text
\* scheme host path followed by slashes trailing "/", the root path "/"
\* being left out of the text.
Configs ==
  <<[accessKeyId |-> <<"A", "K", "I", "D", "1", "2">>,
     secretAccessKey |-> <<"s", "e", "c", "r", "e", "t">>,
     endpoint |-> [scheme |-> "https://", host |-> "one.example",
                   path |-> "/bucket", slashes |-> 0],
     region |-> "auto",
     logger |-> TRUE],
    [accessKeyId |-> <<"B", "K", "I", "D", "3", "4">>,
     secretAccessKey |-> <<"h", "i", "d", "d", "e", "n">>,
     endpoint |-> [scheme |-> "https://", host |-> "two.example",
                   path |-> "/", slashes |-> 0],
     region |-> "eu-west-1",
     logger |-> TRUE]>>

\* An endpoint a caller wrote: with a scheme, with "//" only or with none,
\* a host or a host with a blank in it, with trailing slashes or without;
\* or the empty text.
EmptyEndpoint == [scheme |-> "", host |-> "", path |-> "/", slashes |-> 0]
Endpoints ==
  [scheme : {"https://", "http://", "//", ""},
   host : {"one.example", "two.example", "bad host"},
   path : {"/", "/bucket"}, slashes : 0..MaxSlashes]
  \cup {EmptyEndpoint}

\* new URL(text) returns: the text has a scheme and a host without a blank.
Parses(e) ==
  e.scheme \in {"https://", "http://"} /\ e.host \notin {"", "bad host"}

\* _ensureValidUrl(raw)
EnsureValidUrl(raw) ==
  LET \* /^(https?:)?\/\//i.test(raw) ? raw : "https://" + raw
      candidate == IF raw.scheme # "" THEN raw
                   ELSE [raw EXCEPT !.scheme = "https://"]
  IN IF Parses(candidate)
       THEN [throws |-> FALSE,
             \* candidate.replace(/\/+$/, '')
             endpoint |-> [candidate EXCEPT !.slashes = 0]]
       ELSE [throws |-> TRUE]

\* _validateConstructorParams(accessKeyId, secretAccessKey, endpoint) throws
ValidateConstructorParamsThrows(p) ==
  \/ Len(Trim(p.accessKeyId)) = 0
  \/ Len(Trim(p.secretAccessKey)) = 0
  \/ p.endpoint = EmptyEndpoint

SENSITIVE_KEYS_REDACTED ==
  {"accessKeyId", "secretAccessKey", "sessionToken", "password", "token"}

REDACTED == <<"[REDACTED]">>

\* _sanitize(obj): a value that is no object is returned as it is; of an
\* object (or array) every key whose lower-cased name is in the list gets
\* the placeholder, every other object value is sanitized in turn.
RECURSIVE Sanitize(_)
Sanitize(obj) ==
  CASE obj.t = "map" ->
         VMap([k \in DOMAIN obj.m |->
                 IF LowerName(k) \in SENSITIVE_KEYS_REDACTED
                   THEN VStr(REDACTED)
                   ELSE Sanitize(obj.m[k])])
    [] obj.t = "arr" ->
         VArr([i \in 1..Len(obj.a) |-> Sanitize(obj.a[i])])
    [] OTHER -> obj

\* _log(level, message, additionalData) of a client configured with p: the
\* entries handed to the logger (none without a logger). The timestamp is
\* left out.
Log(p, level, message, additionalData) ==
  IF ~p.logger THEN <<>>
  ELSE <<[level |-> level,
          message |-> message,
          details |-> Sanitize(additionalData),
          context |->
            Sanitize(VMap(
              ("region" :> VStr(<<p.region>>))
                @@ ("endpoint" :>
                      VStr(<<"https://", p.endpoint.host, p.endpoint.path>>))
                @@ ("accessKeyId" :>
                      IF p.accessKeyId # <<>>
                        THEN VStr(SubSeq(p.accessKeyId, 1,
                                         IF Len(p.accessKeyId) < 4
                                           THEN Len(p.accessKeyId) ELSE 4)
                                    \o <<".", ".", ".">>)
                        ELSE VUndef)))]>>

(***************************************************************************)
(* Signing (S3.ts: _sign and its helpers)                                  *)
(***************************************************************************)
UNSIGNED_PAYLOAD == <<"UNSIGNED-PAYLOAD">>

\* The text of a document, as it is written into a body or a message.
RECURSIVE XmlText(_)
XmlText(doc) ==
  LET RECURSIVE Cat(_)
      Cat(es) ==
        IF es = <<>> THEN <<>>
        ELSE <<"<", Head(es).p, Head(es).r, ">">>
               \o XmlText(Head(es).inner)
               \o <<"<", "/", Head(es).p, Head(es).r, ">">>
               \o Cat(Tail(es))
  IN IF doc.kind = "elems" THEN Cat(doc.elems) ELSE doc.text

\* U.hash(content): the hex SHA-256 of the content, kept symbolic.
Hash(content) == <<"sha256(">> \o content \o <<")">>

\* body ? U.hash(body) : C.UNSIGNED_PAYLOAD. A string is truthy when it is
\* not empty; a Buffer is an object, and truthy whatever its length.
PayloadHash(body) ==
  IF body.kind = "buffer" \/ XmlText(body) # <<>>
    THEN Hash(XmlText(body))
    ELSE UNSIGNED_PAYLOAD

\* The printable ASCII characters in the order of their codes, 32 to 126
\* (the grave accent, code 96, is written by its name).
Ascii ==
  <<" ", "!", "\"", "#", "$", "%", "&", "'", "(", ")", "*", "+", ",", "-",
    ".", "/", "0", "1", "2", "3", "4", "5", "6", "7", "8", "9", ":", ";",
    "<", "=", ">", "?", "@", "A", "B", "C", "D", "E", "F", "G", "H", "I",
    "J", "K", "L", "M", "N", "O", "P", "Q", "R", "S", "T", "U", "V", "W",
    "X", "Y", "Z", "[", "\\", "]", "^", "_", "grave", "a", "b", "c", "d", "e",
    "f", "g", "h", "i", "j", "k", "l", "m", "n", "o", "p", "q", "r", "s",
    "t", "u", "v", "w", "x", "y", "z", "{", "|", "}", "~">>

\* c.charCodeAt(0)
CharCode(c) == 31 + (CHOOSE k \in 1..Len(Ascii) : Ascii[k] = c)

\* encodeURIComponent(s): letters, digits and - _ . ! ~ * ' ( ) are kept,
\* every other character becomes % and the two hex digits of its code.
RECURSIVE EncodeURIComponent(_)
EncodeURIComponent(s) ==
  LET Hex == <<"0", "1", "2", "3", "4", "5", "6", "7", "8", "9",
               "A", "B", "C", "D", "E", "F">>
      Kept(c) ==
        \/ CharCode(c) \in 48..57 \/ CharCode(c) \in 65..90
        \/ CharCode(c) \in 97..122
        \/ c \in {"-", "_", ".", "!", "~", "*", "'", "(", ")"}
      One(c) ==
        IF Kept(c) THEN <<c>>
        ELSE <<"%", Hex[(CharCode(c) \div 16) + 1], Hex[(CharCode(c) % 16) + 1]>>
  IN IF s = <<>> THEN <<>> ELSE One(Head(s)) \o EncodeURIComponent(Tail(s))

\* The comparison of Array.prototype.sort without a comparator: a < b by
\* code units, a proper prefix coming first.
RECURSIVE TextLess(_, _)
TextLess(a, b) ==
  IF b = <<>> THEN FALSE
  ELSE IF a = <<>> THEN TRUE
  ELSE IF Head(a) # Head(b) THEN CharCode(Head(a)) < CharCode(Head(b))
  ELSE TextLess(Tail(a), Tail(b))

\* texts.sort().join(sep), for texts that differ from one another.
RECURSIVE SortJoin(_, _)
SortJoin(texts, sep) ==
  IF texts = {} THEN <<>>
  ELSE LET least == CHOOSE t \in texts :
                      \A u \in texts \ {t} : TextLess(t, u)
       IN IF texts = {least} THEN least
          ELSE least \o sep \o SortJoin(texts \ {least}, sep)

\* _buildCanonicalQueryString(queryParams): the strings encoded key, "=",
\* encoded value are built first, and these strings are sorted.
BuildCanonicalQueryString(queryParams) ==
  IF DOMAIN queryParams = {} THEN <<>>
  ELSE SortJoin({EncodeURIComponent(k) \o <<"=">>
                   \o EncodeURIComponent(queryParams[k]) :
                   k \in DOMAIN queryParams},
                <<"&">>)

\* _buildCanonicalHeaders(headers): the lines lower-cased name, ":",
\* trimmed value are built first, and these lines are sorted.
BuildCanonicalHeaders(headers) ==
  SortJoin({[i \in 1..Len(k) |-> Lower(k[i])] \o <<":">> \o Trim(headers[k]) :
              k \in DOMAIN headers},
           <<"\n">>)

\* Object.keys(headers).map(key => key.toLowerCase()).sort().join(';')
SignedHeaderNames(headers) ==
  SortJoin({[i \in 1..Len(k) |-> Lower(k[i])] : k \in DOMAIN headers},
           <<";">>)

\* U.uriResourceEscape(key): encodeURIComponent, then ! ' ( ) * as hex,
\* then %2F back to the slash.
RECURSIVE UriResourceEscape(_)
UriResourceEscape(s) ==
  LET One(c) ==
        CASE c = "/" -> <<"/">>
          [] c = "!" -> <<"%", "2", "1">>
          [] c = "'" -> <<"%", "2", "7">>
          [] c = "(" -> <<"%", "2", "8">>
          [] c = ")" -> <<"%", "2", "9">>
          [] c = "*" -> <<"%", "2", "A">>
          [] OTHER -> EncodeURIComponent(<<c>>)
  IN IF s = <<>> THEN <<>> ELSE One(Head(s)) \o UriResourceEscape(Tail(s))

\* The characters of a query parameter name.
QueryNameText(n) ==
  CASE n = "list-type" -> <<"l", "i", "s", "t", "-", "t", "y", "p", "e">>
    [] n = "max-keys" -> <<"m", "a", "x", "-", "k", "e", "y", "s">>
    [] n = "continuation-token" ->
         <<"c", "o", "n", "t", "i", "n", "u", "a", "t", "i", "o", "n", "-",
           "t", "o", "k", "e", "n">>
    [] n = "uploadId" -> <<"u", "p", "l", "o", "a", "d", "I", "d">>
    [] n = "partNumber" ->
         <<"p", "a", "r", "t", "N", "u", "m", "b", "e", "r">>
    [] n = "uploads" -> <<"u", "p", "l", "o", "a", "d", "s">>
    [] n = "versionId" -> <<"v", "e", "r", "s", "i", "o", "n", "I", "d">>

\* new Date().toISOString().replace(/[:-]|\.\d{3}/g, ''), and its first
\* eight characters; the clock is not part of the model.
Datetime == "20260101T000000Z"
DateStamp == "20260101"

\* A _sign that keeps using the region the client was constructed with.
SignWithConstructorRegion(p, req) ==
  [method |-> req.method,
   key |-> req.key,
   query |-> req.query,
   headers |-> req.headers,
   body |-> req.body,
   tolerated |-> req.tolerated,
   url |-> [endpoint |-> p.endpoint, pathname |-> <<p.endpoint.path>>,
            query |-> req.query],
   signedHeaders |->
     ("Authorization" :>
        <<"AWS4-HMAC-SHA256 Credential=">> \o p.accessKeyId
          \o <<"/", DateStamp, "/", Configs[1].region, "/s3/aws4_request">>)
       @@ ("host" :> <<p.endpoint.host>>)
       @@ ("x-amz-content-sha256" :> PayloadHash(req.body))
       @@ req.headers,
   canonicalRequest |-> [payload |-> PayloadHash(req.body)],
   signature |->
     [signingKey |-> [secret |-> p.secretAccessKey, date |-> DateStamp,
                      region |-> Configs[1].region]]]

\* A _sign that sets the host header after it built the canonical headers
\* and the list of signed headers.
SignBeforeHost(p, req) ==
  LET RECURSIVE StripSlashes(_)
      \* keyPath.replace(/^\/+/, '')
      StripSlashes(k) ==
        IF k # <<>> /\ Head(k) = "/" THEN StripSlashes(Tail(k)) ELSE k
      pathname ==
        IF req.key # <<>>
          THEN (IF p.endpoint.path = "/" THEN <<"/">>
                ELSE <<p.endpoint.path, "/">>) \o StripSlashes(req.key)
          ELSE <<p.endpoint.path>>
      signed ==
        ("x-amz-content-sha256" :> PayloadHash(req.body))
          @@ ("x-amz-date" :> <<Datetime>>)
          @@ req.headers
      headers == ("host" :> <<p.endpoint.host>>) @@ signed
      lowered == {LowerName(n) : n \in DOMAIN signed}
      RECURSIVE JoinNames(_)
      \* Object.keys(headers).map(toLowerCase).sort().join(';'), over the
      \* header names of the program in their sorted order
      JoinNames(names) ==
        IF names = <<>> THEN <<>>
        ELSE IF Head(names) \notin lowered THEN JoinNames(Tail(names))
        ELSE IF \E k \in 1..Len(Tail(names)) : Tail(names)[k] \in lowered
          THEN <<Head(names), ";">> \o JoinNames(Tail(names))
        ELSE <<Head(names)>>
      signedHeaders ==
        JoinNames(<<"content-length", "content-type", "host", "if-match",
                    "if-none-match", "x-amz-content-sha256", "x-amz-date">>)
      canonicalRequest ==
        [method |-> req.method,
         pathname |-> pathname,
         query |-> BuildCanonicalQueryString(
                     [k \in {QueryNameText(n) : n \in DOMAIN req.query} |->
                        req.query[CHOOSE n \in DOMAIN req.query :
                                    QueryNameText(n) = k]]),
         headers |-> {<<LowerName(n), Trim(signed[n])>> : n \in DOMAIN signed},
         signedHeaders |-> signedHeaders,
         payload |-> PayloadHash(req.body)]
      credentialScope == <<DateStamp, "/", p.region, "/s3/aws4_request">>
      signature ==
        [signingKey |-> [secret |-> p.secretAccessKey, date |-> DateStamp,
                         region |-> p.region],
         stringToSign |-> [datetime |-> Datetime, scope |-> credentialScope,
                           canonicalRequest |-> canonicalRequest]]
      authorizationHeader ==
        <<"AWS4-HMAC-SHA256 Credential=">> \o p.accessKeyId \o <<"/">>
          \o credentialScope
          \o <<", ", "SignedHeaders=">> \o signedHeaders
          \o <<", ", "Signature=", "hmac">>
  IN [method |-> req.method,
      key |-> req.key,
      query |-> req.query,
      headers |-> req.headers,
      body |-> req.body,
      tolerated |-> req.tolerated,
      url |-> [endpoint |-> p.endpoint, pathname |-> pathname,
               query |-> req.query],
      signedHeaders |-> ("Authorization" :> authorizationHeader) @@ headers,
      canonicalRequest |-> canonicalRequest,
      signature |-> signature]

\* _sign(method, keyPath, query, headers, body) of a client configured with
\* p, and the rest of _signedRequest up to the call of _sendRequest: the
\* request as it is handed to the transport. The HMAC is kept symbolic: the
\* signature is the pair of its signing key and its string to sign.
Sign(p, req) ==
  LET RECURSIVE StripSlashes(_)
      \* keyPath.replace(/^\/+/, '')
      StripSlashes(k) ==
        IF k # <<>> /\ Head(k) = "/" THEN StripSlashes(Tail(k)) ELSE k
      pathname ==
        IF req.key # <<>>
          THEN (IF p.endpoint.path = "/" THEN <<"/">>
                ELSE <<p.endpoint.path, "/">>) \o StripSlashes(req.key)
          ELSE <<p.endpoint.path>>
      headers ==
        ("x-amz-content-sha256" :> PayloadHash(req.body))
          @@ ("x-amz-date" :> <<Datetime>>)
          @@ ("host" :> <<p.endpoint.host>>)
          @@ req.headers
      lowered == {LowerName(n) : n \in DOMAIN headers}
      RECURSIVE JoinNames(_)
      \* Object.keys(headers).map(toLowerCase).sort().join(';'), over the
      \* header names of the program in their sorted order
      JoinNames(names) ==
        IF names = <<>> THEN <<>>
        ELSE IF Head(names) \notin lowered THEN JoinNames(Tail(names))
        ELSE IF \E k \in 1..Len(Tail(names)) : Tail(names)[k] \in lowered
          THEN <<Head(names), ";">> \o JoinNames(Tail(names))
        ELSE <<Head(names)>>
      signedHeaders ==
        JoinNames(<<"content-length", "content-type", "host", "if-match",
                    "if-none-match", "x-amz-content-sha256", "x-amz-date">>)
      canonicalRequest ==
        [method |-> req.method,
         pathname |-> pathname,
         query |-> BuildCanonicalQueryString(
                     [k \in {QueryNameText(n) : n \in DOMAIN req.query} |->
                        req.query[CHOOSE n \in DOMAIN req.query :
                                    QueryNameText(n) = k]]),
         headers |-> {<<LowerName(n), Trim(headers[n])>> : n \in DOMAIN headers},
         signedHeaders |-> signedHeaders,
         payload |-> PayloadHash(req.body)]
      credentialScope == <<DateStamp, "/", p.region, "/s3/aws4_request">>
      signature ==
        [signingKey |-> [secret |-> p.secretAccessKey, date |-> DateStamp,
                         region |-> p.region],
         stringToSign |-> [datetime |-> Datetime, scope |-> credentialScope,
                           canonicalRequest |-> canonicalRequest]]
      authorizationHeader ==
        <<"AWS4-HMAC-SHA256 Credential=">> \o p.accessKeyId \o <<"/">>
          \o credentialScope
          \o <<", ", "SignedHeaders=">> \o signedHeaders
          \o <<", ", "Signature=", "hmac">>
  IN [method |-> req.method,
      key |-> req.key,
      query |-> req.query,
      headers |-> req.headers,
      body |-> req.body,
      tolerated |-> req.tolerated,
      url |-> [endpoint |-> p.endpoint, pathname |-> pathname,
               query |-> req.query],
      signedHeaders |-> ("Authorization" :> authorizationHeader) @@ headers,
      canonicalRequest |-> canonicalRequest,
      signature |-> signature]

(***************************************************************************)
(* Requests (S3.ts: _signedRequest, _sendRequest)                          *)
(***************************************************************************)
\* _signedRequest(method, key, {query, body, headers, tolerated}) up to the
\* call of _sendRequest: the key check, the conditional headers, the key of
\* the path ('' when the key is falsy).
SignedRequest(method, key, query, body, headers, tolerated) ==
  IF SignedRequestKeyThrows(key)
    THEN LogAndThrow(TypeError("ERROR_KEY_REQUIRED"))
    ELSE LET isRead == method \in {"GET", "HEAD"}
         IN Send([method |-> method,
                  key |-> IF Truthy(key) THEN UriResourceEscape(key.str)
                          ELSE <<>>,
                  query |-> IF isRead THEN FilteredOpts(query) ELSE query,
                  headers |->
                    (IF isRead THEN ConditionalHeaders(query) ELSE EmptyMap)
                      @@ headers
                      @@ (IF isRead
                            THEN ("Content-Type" :> JSON_CONTENT_TYPE)
                            ELSE EmptyMap),
                  body |-> body,
                  tolerated |-> tolerated])

\* res.ok
Ok(status) == status >= 200 /\ status <= 299

\* _handleErrorResponse(res): the ServiceError it throws.
HandleErrorResponse(res) ==
  S3ServiceError(res.status,
                 IF res.errCode.present THEN res.errCode.v ELSE "Unknown",
                 res.body)

\* A catch block that reports every failure as unknown.
CatchAsUnknown(err) ==
  S3NetworkError("Unknown network failure", ExtractErrCode(err), err)

\* The catch block of _sendRequest: whatever was thrown inside the try block
\* is rethrown as a S3NetworkError chosen by its code.
CatchOfSendRequest(err) ==
  LET code == ExtractErrCode(err)
  IN IF code.present /\ code.v \in {"ENOTFOUND", "EAI_AGAIN"}
       THEN S3NetworkError("Could not resolve host", code, err)
     ELSE IF code.present /\ code.v \in {"ETIMEDOUT", "ECONNREFUSED"}
       THEN S3NetworkError("S3 endpoint unreachable", code, err)
     ELSE S3NetworkError("Unknown network failure", code, err)

\* A _sendRequest that raises on every status outside 2xx, tolerated or not.
SendRequestIgnoringTolerated(req, fetched) ==
  IF ~fetched.resolved
    THEN Throw(CatchOfSendRequest(fetched.err))
  ELSE IF ~Ok(fetched.res.status)
    THEN Throw(CatchOfSendRequest(HandleErrorResponse(fetched.res)))
  ELSE [throws |-> FALSE, res |-> fetched.res]

\* _sendRequest after await fetch(...), fetched being what fetch ended with
\* (resolved with res, or rejected with err): the response, or the error
\* thrown. _handleErrorResponse is called inside the try block, so its
\* ServiceError goes through the catch block too.
SendRequest(req, fetched) ==
  IF ~fetched.resolved
    THEN Throw(CatchOfSendRequest(fetched.err))
  ELSE IF ~Ok(fetched.res.status)
            /\ fetched.res.status \notin req.tolerated
    THEN Throw(CatchOfSendRequest(HandleErrorResponse(fetched.res)))
  ELSE [throws |-> FALSE, res |-> fetched.res]

\* this._log('info', `Sending ${method} request to ${url}`,
\*           `headers: ${JSON.stringify(headers)}`) of _sendRequest
SendingLog(p, req) ==
  LET RECURSIVE QueryText(_)
      QueryText(names) ==
        IF names = {} THEN <<>>
        ELSE LET n == CHOOSE m \in names : TRUE
             IN <<n, "=">> \o req.url.query[n] \o <<"&">>
                  \o QueryText(names \ {n})
      url == <<"https://", req.url.endpoint.host>> \o req.url.pathname
               \o (IF DOMAIN req.url.query = {} THEN <<>>
                   ELSE <<"?">> \o QueryText(DOMAIN req.url.query))
      RECURSIVE Stringify(_)
      \* the headers in the order they were put into the object
      Stringify(names) ==
        IF names = <<>> THEN <<>>
        ELSE (IF Head(names) \in DOMAIN req.signedHeaders
                THEN <<"\"", Head(names), "\":\"">>
                       \o req.signedHeaders[Head(names)] \o <<"\",">>
                ELSE <<>>) \o Stringify(Tail(names))
  IN Log(p, "info", <<"Sending ", req.method, " request to ">> \o url,
         VStr(<<"headers: ", "{">>
                \o Stringify(<<"x-amz-content-sha256", "Content-Type",
                               "Content-Length", "If-Match", "If-None-Match",
                               "x-amz-date", "host", "Authorization">>)
                \o <<"}">>))

\* The entries _sendRequest writes once fetch has resolved with res: the
\* response status, and the entry of _handleErrorResponse when it is called.
ResponseLogs(p, req, res) ==
  Log(p, "info", <<"Response status: ">> \o NumToText(res.status), VMap(<<>>))
    \o (IF ~Ok(res.status) /\ res.status \notin req.tolerated
          THEN Log(p, "error",
                   <<"core-s3: Request failed with status ">>
                     \o NumToText(res.status)
                     \o <<": ", IF res.errCode.present THEN res.errCode.v
                                ELSE "Unknown", ",err body: ">>
                     \o XmlText(res.body),
                   VMap(<<>>))
          ELSE <<>>)

\* The entries an operation writes itself when it ends with out: the catch
\* block of getObjectWithETag logs whatever was thrown inside it;
\* listObjects and abortMultipartUpload log before the Error they throw.
OperationLogs(p, c, out) ==
  IF out.kind # "threw" THEN <<>>
  ELSE IF c.op = "getObjectWithETag"
    THEN Log(p, "error",
             <<"Error getting object ">> \o c.key.str
               \o <<" with ETag: ", out.error.name, ": ", out.error.message>>,
             VMap(<<>>))
  ELSE IF c.op \in {"listObjects", "abortMultipartUpload"}
          /\ out.error.name = "Error"
    THEN Log(p, "error", <<"core-s3: ", out.error.message>>, VMap(<<>>))
  ELSE <<>>

(***************************************************************************)
(* The operations of S3mini (S3.ts): the request each one makes, and what  *)
(* it makes of the response.                                               *)
(***************************************************************************)
\* The program's S3 ceiling of one listing page, Math.min(remaining, 1000).
S3Ceiling == 1000

Min(a, b) == IF a <= b THEN a ELSE b

\* data instanceof Buffer || typeof data === 'string'
IsData(data) == data.type \in {"string", "buffer"}

\* body: data
BodyOf(data) ==
  IF data.type = "buffer" THEN XBuffer(data.str) ELSE XText(data.str)

\* { 'Content-Length': Buffer.byteLength(data) }
ContentLength(s) == "Content-Length" :> NumToText(Len(s))

\* getObjectWithETag, after the response
GetObjectWithETagResult(res) ==
  IF res.status \in {404, 412, 304}
    THEN Returned("etagdata", [etag |-> JsNull, data |-> JsNull])
  ELSE IF ~res.etag.present \/ res.etag.v = <<>>
    THEN Threw(PlainError("ETag not found in response headers", VUndef))
  ELSE Returned("etagdata", [etag |-> JsString(SanitizeETag(res.etag.v)),
                             data |-> JsString(res.body.text)])

\* getEtag, after the response
GetEtagResult(res) ==
  IF res.status = 404 THEN Returned("null", JsNull)
  ELSE IF ~res.etag.present \/ res.etag.v = <<>>
    THEN Threw(PlainError("ETag not found in response headers", VUndef))
  ELSE Returned("text", XText(SanitizeETag(res.etag.v)))

PutObjectCall(c) ==
  IF ~IsData(c.data) THEN Throw(TypeError("ERROR_DATA_BUFFER_REQUIRED"))
  ELSE SignedRequest("PUT", c.key, EmptyMap, BodyOf(c.data),
                     ContentLength(c.data.str), {200})
GetMultipartUploadIdCall(c) ==
  IF CheckKeyThrows(c.key)
    THEN LogAndThrow(TypeError("ERROR_KEY_REQUIRED"))
  ELSE SignedRequest("POST", c.key, "uploads" :> <<>>, EmptyBody,
                     "Content-Type" :> DEFAULT_STREAM_CONTENT_TYPE, {})
GetMultipartUploadIdResult(res) ==
  LET parsed == ParseXml(res.body)
      init == Get(parsed, "initiateMultipartUploadResult")
      failed == Threw(PlainError("Failed to create multipart upload",
                                 parsed))
  IN IF parsed.t = "map"
          /\ HasKey(parsed, "initiateMultipartUploadResult")
          /\ VTruthy(init)
       THEN IF init.t = "str"
              \* 'uploadId' in <a non-empty string>
              THEN Threw(TypeError("Cannot use 'in' operator"))
            ELSE IF HasKey(init, "uploadId")
              THEN Returned("object", Get(init, "uploadId"))
            ELSE failed
       ELSE failed

\* _validateUploadPartParams
ValidateUploadPartParams(c) ==
  IF CheckKeyThrows(c.key)
    THEN LogAndThrow(TypeError("ERROR_KEY_REQUIRED"))
  ELSE IF ~IsData(c.data)
    THEN LogAndThrow(TypeError("ERROR_DATA_BUFFER_REQUIRED"))
  ELSE IF c.uploadId.type # "string" \/ Len(Trim(c.uploadId.str)) = 0
    THEN LogAndThrow(TypeError("ERROR_UPLOAD_ID_REQUIRED"))
  ELSE IF c.partNumber.type # "number" \/ c.partNumber.num <= 0
    THEN LogAndThrow(TypeError("partNumber must be a positive integer"))
  ELSE [throws |-> FALSE]

UploadPartCall(c) ==
  IF ValidateUploadPartParams(c).throws THEN ValidateUploadPartParams(c)
  ELSE SignedRequest("PUT", c.key,
                     ("uploadId" :> c.uploadId.str)
                       @@ ("partNumber" :> NumToText(c.partNumber.num)),
                     BodyOf(c.data), ContentLength(c.data.str), {})
\* _buildCompleteMultipartUploadXml(parts): one Part per element of parts,
\* in the order of parts.
PartElem(part) ==
  Elem("P", "art",
       XElems(<<Leaf("P", "artNumber", NumToText(part.partNumber)),
                Leaf("E", "Tag", part.etag)>>))

\* The parts with every repeated part number dropped.
RECURSIVE DistinctParts(_)
DistinctParts(parts) ==
  IF parts = <<>> THEN <<>>
  ELSE LET front == DistinctParts(SubSeq(parts, 1, Len(parts) - 1))
           last == parts[Len(parts)]
       IN IF \E j \in 1..Len(front) : front[j].partNumber = last.partNumber
            THEN front ELSE Append(front, last)

\* A manifest that leaves out the parts whose number was seen before.
BuildDistinctParts(parts) ==
  [i \in 1..Len(DistinctParts(parts)) |-> PartElem(DistinctParts(parts)[i])]

BuildParts(parts) == [i \in 1..Len(parts) |-> PartElem(parts[i])]
BuildCompleteMultipartUploadXml(parts) ==
  XElems(<<Elem("C", "ompleteMultipartUpload", XElems(BuildParts(parts)))>>)

\* String(uploadId) of the query
UploadIdText(uploadId) ==
  CASE uploadId.type = "string" -> uploadId.str
    [] uploadId.type = "number" -> NumToText(uploadId.num)
    [] uploadId.type = "null" -> <<"n", "u", "l", "l">>
    [] OTHER -> <<"u", "n", "d", "e", "f", "i", "n", "e", "d">>

\* completeMultipartUpload: no validation of its own.
CompleteMultipartUploadCall(c) ==
  SignedRequest("POST", c.key, "uploadId" :> UploadIdText(c.uploadId),
                BuildCompleteMultipartUploadXml(c.parts),
                "Content-Type" :> XML_CONTENT_TYPE, {})
CompleteMultipartUploadResult(res) ==
  LET parsed == ParseXml(res.body)
      result == IF HasKey(parsed, "completeMultipartUploadResult")
                  THEN Get(parsed, "completeMultipartUploadResult")
                  ELSE parsed
      raw == IF HasKey(result, "eTag") THEN Get(result, "eTag")
             ELSE Get(result, "ETag")
  IN IF ~VTruthy(result) \/ result.t = "str"
       THEN Threw(PlainError("Failed to complete multipart upload", parsed))
     ELSE IF HasKey(result, "ETag") \/ HasKey(result, "eTag")
       THEN IF raw.t = "str"
              THEN Returned("object",
                     VMap(("etag" :> VStr(SanitizeETag(raw.s))) @@ result.m))
              \* etag.replace is not a function
              ELSE Threw(TypeError("etag.replace is not a function"))
     ELSE Returned("object", result)

AbortMultipartUploadCall(c) ==
  IF CheckKeyThrows(c.key)
    THEN LogAndThrow(TypeError("ERROR_KEY_REQUIRED"))
  ELSE IF ~Truthy(c.uploadId)
    THEN Throw(TypeError("ERROR_UPLOAD_ID_REQUIRED"))
  ELSE SignedRequest("DELETE", c.key, "uploadId" :> UploadIdText(c.uploadId),
                     EmptyBody, "Content-Type" :> XML_CONTENT_TYPE, {})
AbortMultipartUploadResult(c, res) ==
  LET parsed == ParseXml(res.body)
      error == Get(parsed, "error")
  IN IF ~VTruthy(parsed)
       THEN Returned("aborted", [status |-> "Aborted", key |-> c.key,
                                 uploadId |-> c.uploadId,
                                 response |-> parsed])
     ELSE IF parsed.t = "str"
       \* 'error' in <a non-empty string>
       THEN Threw(TypeError("Cannot use 'in' operator"))
     ELSE IF HasKey(parsed, "error") /\ error.t \in {"map", "arr"}
             /\ HasKey(error, "message")
       THEN Threw(PlainError("Failed to abort multipart upload",
                             Get(error, "message")))
     ELSE Returned("aborted", [status |-> "Aborted", key |-> c.key,
                               uploadId |-> c.uploadId,
                               response |-> parsed])

\* let remaining = unlimited ? Infinity : maxKeys
Infinity == [inf |-> TRUE, n |-> 0]
Finite(n) == [inf |-> FALSE, n |-> n]

\* An unlimited that takes maxKeys 0 for a budget: !(maxKeys >= 0).
UnlimitedUnlessZero(maxKeys) == ~(maxKeys.type = "number" /\ maxKeys.num >= 0)

\* const unlimited = !(maxKeys && maxKeys > 0)
Unlimited(maxKeys) == ~(Truthy(maxKeys) /\ maxKeys.num > 0)
\* const batchSize = Math.min(remaining, 1000)
BatchSizeOf(rem) == IF rem.inf THEN S3Ceiling ELSE Min(rem.n, S3Ceiling)

\* String(token) of the query
TokenText(tok) ==
  IF tok.t = "str" THEN tok.s
  ELSE <<"[", "o", "b", "j", "e", "c", "t", " ", "O", "b", "j", "e", "c", "t",
         "]">>

\* The request of one round of listObjects with the default delimiter '/',
\* the default prefix '' and no opts.
ListObjectsCall(rem, tok) ==
  SignedRequest("GET", JsString(<<"/">>),
                ("list-type" :> <<"2">>)
                  @@ ("max-keys" :> NumToText(BatchSizeOf(rem)))
                  @@ (IF VTruthy(tok)
                        THEN "continuation-token" :> TokenText(tok)
                        ELSE EmptyMap),
                EmptyBody, EmptyMap, {200, 404})

\* A listing answered as absent although it exists and is empty.
ListingNotFoundOrEmpty(res) ==
  \/ res.status = 404
  \/ /\ res.status = 200
     /\ ~VTruthy(Get(ParseXml(res.body), "contents"))
     /\ ~VTruthy(Get(Get(ParseXml(res.body), "listBucketResult"), "contents"))

\* if (res.status === 404) return null
ListingNotFound(res) == res.status = 404

TrueText == <<"t", "r", "u", "e">>

\* The body of the do..while loop of listObjects after the response: the
\* outcome when the operation ends here, else the state of the next round.
ListObjectsRound(unlimited, rem, acc, res) ==
  IF ListingNotFound(res)
    THEN [ends |-> TRUE, outcome |-> Returned("null", JsNull)]
  ELSE IF res.status # 200
    THEN [ends |-> TRUE,
          outcome |-> Threw(PlainError("Request failed with status",
                                       VUndef))]
  ELSE
    LET \* a || b || c || d
        FirstTruthy(vs) ==
          IF \E i \in 1..Len(vs) : VTruthy(vs[i])
            THEN vs[CHOOSE i \in 1..Len(vs) :
                      VTruthy(vs[i]) /\ \A j \in 1..(i - 1) : ~VTruthy(vs[j])]
            ELSE vs[Len(vs)]
        raw == ParseXml(res.body)
        out == IF HasKey(raw, "listBucketResult")
                 THEN Get(raw, "listBucketResult") ELSE raw
        contents == Get(out, "contents")
        batchOf == IF ~VTruthy(contents) THEN <<>>
                   ELSE IF contents.t = "arr" THEN contents.a
                   ELSE <<contents>>
        all2 == acc \o batchOf
        rem2 == IF unlimited THEN rem ELSE Finite(rem.n - Len(batchOf))
        truncated == \/ Get(out, "isTruncated") = VStr(TrueText)
                     \/ Get(out, "IsTruncated") = VStr(TrueText)
        tok == IF truncated
                 THEN FirstTruthy(<<Get(out, "nextContinuationToken"),
                                    Get(out, "NextContinuationToken"),
                                    Get(out, "nextMarker"),
                                    Get(out, "NextMarker")>>)
                 ELSE VUndef
    IN IF raw.t # "map" \/ HasKey(raw, "error")
         THEN [ends |-> TRUE,
               outcome |-> Threw(PlainError(
                             "Unexpected listObjects response shape", VUndef))]
       ELSE IF VTruthy(tok) /\ (rem2.inf \/ rem2.n > 0)
         THEN [ends |-> FALSE, remaining |-> rem2, all |-> all2,
               token |-> tok]
       ELSE [ends |-> TRUE, outcome |-> Returned("array", all2)]

\* The arguments of a call; an operation reads those it takes.
BaseCall ==
  [op |-> "none", key |-> JsUndefined, opts |-> EmptyMap,
   data |-> JsUndefined, uploadId |-> JsUndefined,
   partNumber |-> JsUndefined, parts |-> <<>>, maxKeys |-> JsUndefined]

\* No function has been applied.
PureIdle ==
  /\ fnName = "none"
  /\ fnInput = <<>>
  /\ fnOutput = <<>>

\* No uploadPart call has been made.
UploadIdle ==
  /\ flights = <<>>
  /\ arrivals = <<>>

\* No operation has been called.
ClientIdle ==
  /\ call = BaseCall
  /\ pc = "idle"
  /\ request = [method |-> "", key |-> <<>>, query |-> EmptyMap,
                headers |-> EmptyMap, body |-> EmptyBody, tolerated |-> {}]
  /\ remaining = Infinity
  /\ token = VUndef
  /\ all = <<>>
  /\ outcome = NoOutcome
  /\ sent = <<>>
  /\ answers = <<>>
  /\ props = Configs[1]
  /\ logs = <<>>

(***************************************************************************)
(* runInBatches                                                            *)
(***************************************************************************)
\* What a task function does when called: it returns a promise that
\* fulfils, one that rejects, or it throws before returning a promise.
Behaviours == {"fulfil", "reject", "throw"}

TaskSeqs == UNION {[1..n -> Behaviours] : n \in 0..MaxTasks}

\* A batchSize argument: the number n, or n + 1/2 when half is set.
BatchSizes ==
  {[n |-> k, half |-> FALSE] : k \in (0 - 1)..MaxBatch}
    \cup {[n |-> 1, half |-> TRUE]}

Intervals == 0..MaxInterval

\* batch.length > batchSize: the batch is closed one task late.
LengthOverBatchSize(len, size) == ~size.half /\ len = size.n + 1

\* batch.length === batchSize
LengthIsBatchSize(len, size) == ~size.half /\ len = size.n

\* A PromiseSettledResult of task i; the task's value (or reason) is i.
SettledResult(i) ==
  IF promise[i] = "fulfilled"
    THEN [status |-> "fulfilled", value |-> i]
    ELSE [status |-> "rejected", reason |-> i]

IsSettled(i) == promise[i] \in {"fulfilled", "rejected"}

\* batchFns.map(fn => fn()): the functions are called in order; the first
\* one that throws ends the map, and the ones after it are never called.
FirstThrow(fns) ==
  LET thrower == {k \in 1..Len(fns) : tasks[fns[k]] = "throw"}
  IN IF thrower = {} THEN 0
     ELSE CHOOSE k \in thrower : \A j \in thrower : k <= j

Called(fns) ==
  LET t == FirstThrow(fns)
  IN {fns[k] : k \in 1..(IF t = 0 THEN Len(fns) ELSE t)}

\* executeBatch(batchFns) up to its first await; site tells the call site.
ExecuteBatch(fns, site) ==
  /\ start' = now
  /\ batchFns' = fns
  /\ inLoop' = site
  /\ starts' = Append(starts, [fns |-> fns, at |-> now])
  /\ invoked' = [i \in DOMAIN invoked |->
                   IF i \in Called(fns) THEN invoked[i] + 1 ELSE invoked[i]]
  /\ promise' = [i \in DOMAIN promise |->
                   IF i \in Called(fns)
                     THEN (IF tasks[i] = "throw" THEN "thrown" ELSE "pending")
                     ELSE promise[i]]
  /\ IF FirstThrow(fns) = 0
       THEN /\ pcRun' = "allSettled"
            /\ UNCHANGED failure
       ELSE /\ pcRun' = "rejected"
            /\ failure' = fns[FirstThrow(fns)]

\* One iteration of for (const task of tasks).
ForNext ==
  /\ pcRun = "for"
  /\ taskIdx <= Len(tasks)
  /\ batch' = Append(batch, taskIdx)
  /\ IF LengthIsBatchSize(Len(batch'), batchSize)
       THEN ExecuteBatch(batch', TRUE)
       ELSE UNCHANGED <<start, batchFns, inLoop, starts, invoked, promise,
                        pcRun, failure>>
  /\ taskIdx' = taskIdx + 1
  /\ UNCHANGED <<clientVars, pureVars, uploadVars>>
  /\ UNCHANGED <<tasks, batchSize, minIntervalMs, allResults, wakeAt, now>>

\* The iterator is exhausted: if (batch.length) await executeBatch(batch).
ForEnd ==
  /\ pcRun = "for"
  /\ taskIdx > Len(tasks)
  /\ IF Len(batch) # 0
       THEN ExecuteBatch(batch, FALSE)
       ELSE /\ pcRun' = "done"
            /\ UNCHANGED <<start, batchFns, inLoop, starts, invoked, promise,
                           failure>>
  /\ UNCHANGED <<clientVars, pureVars, uploadVars>>
  /\ UNCHANGED <<tasks, batchSize, minIntervalMs, allResults, batch, taskIdx,
                 wakeAt, now>>

\* The promise of a called task settles; any pending one may be next.
TaskSettles(i) ==
  /\ promise[i] = "pending"
  /\ promise' = [promise EXCEPT ![i] =
                   IF tasks[i] = "fulfil" THEN "fulfilled" ELSE "rejected"]
  /\ UNCHANGED <<clientVars, pureVars, uploadVars>>
  /\ UNCHANGED <<tasks, batchSize, minIntervalMs, allResults, batch, batchFns,
                 taskIdx, pcRun, inLoop, invoked, start, wakeAt, now, starts,
                 failure>>

\* After executeBatch returned: batch = [] in the loop, return allResults
\* after it.
AfterBatch ==
  IF inLoop
    THEN /\ batch' = <<>>
         /\ pcRun' = "for"
    ELSE /\ pcRun' = "done"
         /\ UNCHANGED batch

\* Promise.race in the place of Promise.allSettled: one settled task is enough.
AnySettled(fns) == \E k \in 1..Len(fns) : IsSettled(fns[k])

\* Promise.allSettled(batchFns.map(fn => fn())) resolves once every promise
\* of the batch has settled, fulfilled or rejected.
EverySettled(fns) == \A k \in 1..Len(fns) : IsSettled(fns[k])

\* Promise.allSettled resolves; the results are pushed, then the pacing.
AllSettled ==
  /\ pcRun = "allSettled"
  /\ EverySettled(batchFns)
  /\ allResults' = allResults \o
                     [k \in 1..Len(batchFns) |-> SettledResult(batchFns[k])]
  /\ IF minIntervalMs > 0 /\ minIntervalMs - (now - start) > 0
       THEN /\ wakeAt' = now + (minIntervalMs - (now - start))
            /\ pcRun' = "sleep"
            /\ UNCHANGED batch
       ELSE /\ AfterBatch
            /\ UNCHANGED wakeAt
  /\ UNCHANGED <<clientVars, pureVars, uploadVars>>
  /\ UNCHANGED <<tasks, batchSize, minIntervalMs, batchFns, taskIdx, inLoop,
                 invoked, promise, start, now, starts, failure>>

\* setTimeout(r, wait) fires, not before its delay has passed.
TimerFires ==
  /\ pcRun = "sleep"
  /\ now >= wakeAt
  /\ AfterBatch
  /\ UNCHANGED <<clientVars, pureVars, uploadVars>>
  /\ UNCHANGED <<tasks, batchSize, minIntervalMs, allResults, batchFns,
                 taskIdx, inLoop, invoked, promise, start, wakeAt, now, starts,
                 failure>>

\* Time passes while runInBatches is suspended.
Tick ==
  /\ pcRun \in {"allSettled", "sleep"}
  /\ now < MaxClock
  /\ now' = now + 1
  /\ UNCHANGED <<clientVars, pureVars, uploadVars>>
  /\ UNCHANGED <<tasks, batchSize, minIntervalMs, allResults, batch, batchFns,
                 taskIdx, pcRun, inLoop, invoked, promise, start, wakeAt,
                 starts, failure>>

InitBatch ==
  /\ tasks \in TaskSeqs
  /\ batchSize \in BatchSizes
  /\ minIntervalMs \in Intervals
  /\ allResults = <<>>
  /\ batch = <<>>
  /\ batchFns = <<>>
  /\ taskIdx = 1
  /\ pcRun = "for"
  /\ inLoop = FALSE
  /\ invoked = [i \in 1..Len(tasks) |-> 0]
  /\ promise = [i \in 1..Len(tasks) |-> "none"]
  /\ start = 0
  /\ wakeAt = 0
  /\ now = 0
  /\ starts = <<>>
  /\ failure = 0
  /\ bucket = [total |-> 0, style |-> "plain", pages |-> "finite"]
  /\ ClientIdle
  /\ PureIdle
  /\ UploadIdle

NextBatch ==
  \/ ForNext
  \/ ForEnd
  \/ \E i \in 1..Len(tasks) : TaskSettles(i)
  \/ AllSettled
  \/ TimerFires
  \/ Tick

SpecBatch == InitBatch /\ [][NextBatch]_vars

(***************************************************************************)
(* The provider and the network                                            *)
(***************************************************************************)
MaxObjects == 3
MaxBudget == 3
MaxPage == 2
MaxParts == 2
MaxPartNumber == 2

\* The provider: how many objects it holds, and how it writes a Contents
\* element: with Key and ETag (quotes written as &quot;) only, with literal
\* quotes and a LastModified child, or with a ChecksumAlgorithm child. Its
\* pages are those of a finite bucket, those of a bucket that never runs
\* out of objects (total is not read), or those of a finite bucket whose
\* truncated pages carry no token.
Buckets ==
  [total : 0..MaxObjects, style : {"plain", "dated", "checksum"},
   pages : {"finite"}]
  \cup [total : {MaxObjects}, style : {"plain", "dated", "checksum"},
        pages : {"endless", "tokenless"}]

ErrorDoc ==
  XElems(<<Elem("E", "rror",
                XElems(<<Leaf("C", "ode", <<"NoSuchUpload">>),
                         Leaf("M", "essage", <<"g", "o", "n", "e">>),
                         Leaf("R", "equestId", <<"r">>)>>))>>)
ErrorDocNoMessage ==
  XElems(<<Elem("E", "rror",
                XElems(<<Leaf("C", "ode", <<"NoSuchUpload">>)>>))>>)
InitiateDoc ==
  XElems(<<Elem("I", "nitiateMultipartUploadResult",
                XElems(<<Leaf("B", "ucket", <<"b">>),
                         Leaf("K", "ey", <<"k">>),
                         Leaf("U", "ploadId", <<"u">>)>>))>>)
CompleteDoc ==
  XElems(<<Elem("C", "ompleteMultipartUploadResult",
                XElems(<<Leaf("L", "ocation", <<"l">>),
                         Leaf("K", "ey", <<"k">>),
                         Leaf("E", "Tag",
                              <<"&", "q", "u", "o", "t", ";", "e",
                                "&", "q", "u", "o", "t", ";">>)>>))>>)
TextDoc == XText(<<"d">>)

ContentsOf(i, style) ==
  Elem("C", "ontents",
       XElems(<<Leaf("K", "ey", <<"k">> \o NumToText(i)),
                Leaf("E", "Tag",
                     IF style = "dated" THEN <<"\"", "e", "\"">>
                     ELSE <<"&", "q", "u", "o", "t", ";", "e",
                            "&", "q", "u", "o", "t", ";">>)>>
              \o (IF style = "dated"
                    THEN <<Leaf("L", "astModified", <<"d">>)>> ELSE <<>>)
              \o (IF style = "checksum"
                    THEN <<Leaf("C", "hecksumAlgorithm", <<"CRC32">>)>>
                    ELSE <<>>)))

\* The page a conforming provider answers a listing request with: the
\* objects from the continuation token on, at most max-keys and at most cap
\* of them, truncated exactly when more remain, with a token when truncated.
ListingPage(b, req, cap) ==
  LET from == IF "continuation-token" \in DOMAIN req.query
                THEN TextToNum(Tail(req.query["continuation-token"]))
                ELSE 1
      n == IF b.pages = "endless"
             THEN Min(cap, TextToNum(req.query["max-keys"]))
             ELSE Min(Min(cap, TextToNum(req.query["max-keys"])),
                      b.total - from + 1)
      truncated == b.pages = "endless" \/ from + n <= b.total
  IN XElems(<<Elem("L", "istBucketResult",
                   XElems(<<Leaf("N", "ame", <<"b">>),
                            Leaf("I", "sTruncated",
                                 IF truncated THEN TrueText
                                 ELSE <<"f", "a", "l", "s", "e">>)>>
                          \o (IF truncated /\ b.pages # "tokenless"
                                THEN <<Leaf("N", "extContinuationToken",
                                            <<"t">> \o NumToText(from + n))>>
                                ELSE <<>>)
                          \o [i \in 1..n |->
                                ContentsOf(from + i - 1, b.style)]))>>)

ErrorStatuses == {304, 403, 404, 412, 500}
ErrCodes == {Absent, Present("AccessDenied")}
EtagHeaders ==
  {NoHeader, [present |-> TRUE, v |-> <<"\"", "e", "\"">>],
   [present |-> TRUE, v |-> <<"f">>]}

HeadOps == {"getContentLength", "objectExists", "getEtag", "bucketExists"}

\* The bodies a provider answers an operation with, on success and on error.
OkBodies(op) ==
  CASE op \in {"getObject", "getObjectArrayBuffer", "getObjectWithETag",
               "getObjectRaw"} -> {TextDoc}
    [] op \in HeadOps -> {EmptyBody}
    [] op = "getMultipartUploadId" -> {InitiateDoc, ErrorDoc, EmptyBody}
    [] op = "completeMultipartUpload" ->
         {CompleteDoc, ErrorDoc, ErrorDocNoMessage, EmptyBody, TextDoc}
    [] op = "abortMultipartUpload" ->
         {EmptyBody, ErrorDoc, ErrorDocNoMessage, TextDoc}
    [] OTHER -> {EmptyBody}

\* The responses fetch may resolve with for a request of operation op.
Responses(op) ==
  [status : {200, 204}, errCode : {Absent},
   etag : IF op \in {"getObjectWithETag", "getEtag", "uploadPart"}
            THEN EtagHeaders ELSE {NoHeader},
   length : IF op = "getContentLength"
              THEN {NoHeader, [present |-> TRUE, v |-> <<"5">>]}
              ELSE {NoHeader},
   body : OkBodies(op)]
  \cup
  [status : ErrorStatuses, errCode : ErrCodes, etag : {NoHeader},
   length : {NoHeader},
   body : IF op \in HeadOps THEN {EmptyBody} ELSE {EmptyBody, ErrorDoc}]

\* The responses to a listing request req of a provider holding bucket b.
ListingResponses(b, req) ==
  [status : {200}, errCode : {Absent}, etag : {NoHeader}, length : {NoHeader},
   body : {ListingPage(b, req, cap) : cap \in 1..MaxPage} \cup {ErrorDoc}]
  \cup
  [status : {204}, errCode : {Absent}, etag : {NoHeader}, length : {NoHeader},
   body : {EmptyBody}]
  \cup
  [status : ErrorStatuses, errCode : ErrCodes, etag : {NoHeader},
   length : {NoHeader}, body : {EmptyBody, ErrorDoc}]

\* What fetch may reject with: an error with a code of its own, an error
\* whose cause has the code, an error without a code (the abort timeout).
FetchErrors ==
  LET NetCodes == {"ENOTFOUND", "EAI_AGAIN", "ETIMEDOUT", "ECONNREFUSED",
                   "ECONNRESET"}
  IN
  {[name |-> "TypeError", message |-> "fetch failed", detail |-> VUndef,
    code |-> Absent, cause |-> [present |-> TRUE, code |-> Present(c)]] :
     c \in NetCodes}
  \cup
  {[name |-> "Error", message |-> "connect", detail |-> VUndef,
    code |-> Present(c), cause |-> NoCause] : c \in NetCodes}
  \cup
  {[name |-> "TimeoutError", message |-> "aborted due to timeout",
    detail |-> VUndef, code |-> Absent, cause |-> NoCause]}

(***************************************************************************)
(* The calls a caller may make                                             *)
(***************************************************************************)
\* The calls of the interface with the arguments a caller may pass: keys,
\* opts, data, upload ids, part numbers, part lists built from the
\* descriptors uploadPart returns, and listing budgets.
Calls ==
  LET Keys == {JsString(<<"k">>), JsString(<<>>), JsString(<<" ">>), JsNull,
               JsUndefined, JsNumber(0), JsNumber(5)}
      OptsSet == {EmptyMap, "If-Match" :> <<"e">>, "If-Match" :> <<" ", "e">>,
                  "versionId" :> <<"v">>}
      DataValues == {JsString(<<"d">>), JsString(<<>>), JsBuffer(<<"d">>),
                     JsBuffer(<<>>), JsNumber(1)}
      UploadIds == {JsString(<<"u">>), JsString(<<>>), JsString(<<" ">>),
                    JsUndefined}
      PartNumbers == {JsNumber(n) : n \in 0..MaxPartNumber} \cup {JsUndefined}
      Budgets ==
        {JsUndefined, JsNumber(0), JsNumber(-1), JsNumber(S3Ceiling + 1)}
          \cup {JsNumber(n) : n \in 1..MaxBudget}
      \* the provider gave the odd parts a quoted etag, the even ones a
      \* bare one
      PartDescriptors ==
        {[partNumber |-> n,
          etag |-> SanitizeETag(IF n % 2 = 1 THEN <<"\"", "e", "\"">>
                                ELSE <<"f">>)] : n \in 1..MaxPartNumber}
      PartLists == UNION {[1..n -> PartDescriptors] : n \in 0..MaxParts}
  IN
  {[BaseCall EXCEPT !.op = op, !.key = k, !.opts = o] :
     op \in {"getObject", "getObjectArrayBuffer", "getObjectWithETag",
              "getObjectRaw", "objectExists", "getEtag"},
     k \in Keys, o \in OptsSet}
  \cup {[BaseCall EXCEPT !.op = op, !.key = k] :
          op \in {"getContentLength", "deleteObject", "getMultipartUploadId"},
          k \in Keys}
  \cup {[BaseCall EXCEPT !.op = "putObject", !.key = k, !.data = d] :
          k \in Keys, d \in DataValues}
  \cup {[BaseCall EXCEPT !.op = "uploadPart", !.key = k, !.uploadId = u,
                         !.data = d, !.partNumber = n] :
          k \in Keys, u \in UploadIds, d \in DataValues, n \in PartNumbers}
  \cup {[BaseCall EXCEPT !.op = "completeMultipartUpload", !.key = k,
                         !.uploadId = u, !.parts = ps] :
          k \in {JsString(<<"k">>), JsString(<<>>), JsNumber(5)},
          u \in {JsString(<<"u">>), JsUndefined}, ps \in PartLists}
  \cup {[BaseCall EXCEPT !.op = "abortMultipartUpload", !.key = k,
                         !.uploadId = u] : k \in Keys, u \in UploadIds}
  \cup {[BaseCall EXCEPT !.op = "bucketExists"]}
  \cup {[BaseCall EXCEPT !.op = "listObjects", !.maxKeys = m] : m \in Budgets}

\* An operation up to its first await: what it throws, or its request.
FirstRequest(c) ==
  CASE c.op \in {"getObject", "getObjectArrayBuffer", "getObjectWithETag"} ->
         SignedRequest("GET", c.key, c.opts, EmptyBody, EmptyMap,
                       {200, 404, 412, 304})
    [] c.op = "getObjectRaw" ->
         \* wholeFile = true: no range header
         SignedRequest("GET", c.key, c.opts, EmptyBody, EmptyMap, {})
    [] c.op = "getContentLength" ->
         SignedRequest("HEAD", c.key, EmptyMap, EmptyBody, EmptyMap, {})
    [] c.op = "objectExists" ->
         SignedRequest("HEAD", c.key, c.opts, EmptyBody, EmptyMap,
                       {200, 404, 412, 304})
    [] c.op = "getEtag" ->
         SignedRequest("HEAD", c.key, c.opts, EmptyBody, EmptyMap,
                       {200, 404})
    [] c.op = "putObject" -> PutObjectCall(c)
    [] c.op = "deleteObject" ->
         SignedRequest("DELETE", c.key, EmptyMap, EmptyBody, EmptyMap,
                       {200, 204})
    [] c.op = "bucketExists" ->
         SignedRequest("HEAD", JsString(<<>>), EmptyMap, EmptyBody, EmptyMap,
                       {200, 404, 403})
    [] c.op = "getMultipartUploadId" -> GetMultipartUploadIdCall(c)
    [] c.op = "uploadPart" -> UploadPartCall(c)
    [] c.op = "completeMultipartUpload" -> CompleteMultipartUploadCall(c)
    [] c.op = "abortMultipartUpload" -> AbortMultipartUploadCall(c)
    [] c.op = "listObjects" ->
         ListObjectsCall(IF Unlimited(c.maxKeys) THEN Infinity
                         ELSE Finite(c.maxKeys.num), VUndef)

\* An uploadPart that keeps the response in a field of the client and
\* reads the etag from the response that arrived first.
UploadPartResultOfFirstArrival(c, res) ==
  LET got == {k \in 1..Len(arrivals) : arrivals[k].fetched.resolved}
      first == IF got = {} THEN res
               ELSE arrivals[CHOOSE k \in got : \A j \in got : k <= j]
                      .fetched.res
  IN Returned("part",
              [partNumber |-> c.partNumber.num,
               etag |-> SanitizeETag(IF first.etag.present THEN first.etag.v
                                     ELSE <<>>)])

\* return { partNumber, etag: U.sanitizeETag(res.headers.get('etag') || '') }
UploadPartResult(c, res) ==
  Returned("part",
           [partNumber |-> c.partNumber.num,
            etag |-> SanitizeETag(IF res.etag.present THEN res.etag.v
                                  ELSE <<>>)])

\* What a single-request operation makes of the response it was given.
Result(c, res) ==
  CASE c.op \in {"getObject", "getObjectArrayBuffer"} ->
         IF res.status \in {404, 412, 304} THEN Returned("null", JsNull)
         ELSE Returned("text", res.body)
    [] c.op = "getObjectWithETag" -> GetObjectWithETagResult(res)
    [] c.op \in {"getObjectRaw", "putObject"} -> Returned("response", res)
    [] c.op = "getContentLength" ->
         \* len ? +len : 0
         IF res.length.present /\ res.length.v # <<>>
           THEN Returned("number", TextToNum(res.length.v))
           ELSE Returned("number", 0)
    [] c.op = "objectExists" ->
         IF res.status = 404 THEN Returned("boolean", FALSE)
         ELSE IF res.status = 412 \/ res.status = 304
           THEN Returned("null", JsNull)
         ELSE Returned("boolean", TRUE)
    [] c.op = "getEtag" -> GetEtagResult(res)
    [] c.op = "deleteObject" ->
         Returned("boolean", res.status = 200 \/ res.status = 204)
    [] c.op = "bucketExists" -> Returned("boolean", res.status = 200)
    [] c.op = "getMultipartUploadId" -> GetMultipartUploadIdResult(res)
    [] c.op = "uploadPart" -> UploadPartResult(c, res)
    [] c.op = "completeMultipartUpload" -> CompleteMultipartUploadResult(res)
    [] c.op = "abortMultipartUpload" -> AbortMultipartUploadResult(c, res)

\* runInBatches is not running.
BatchIdle ==
  /\ tasks = <<>>
  /\ batchSize = [n |-> 1, half |-> FALSE]
  /\ minIntervalMs = 0
  /\ allResults = <<>>
  /\ batch = <<>>
  /\ batchFns = <<>>
  /\ taskIdx = 1
  /\ pcRun = "done"
  /\ inLoop = FALSE
  /\ invoked = <<>>
  /\ promise = <<>>
  /\ start = 0
  /\ wakeAt = 0
  /\ now = 0
  /\ starts = <<>>
  /\ failure = 0

(***************************************************************************)
(* One call of an operation                                                *)
(***************************************************************************)
\* The caller calls an operation of a client whose endpoint is provider b;
\* it runs to its first await fetch(...), or to the error its validation
\* throws.
CallAgainst(c, b) ==
  /\ pc = "idle"
  /\ call' = c
  /\ bucket' = b
  /\ remaining' = (IF Unlimited(c.maxKeys) THEN Infinity
                   ELSE Finite(c.maxKeys.num))
  /\ token' = VUndef
  /\ all' = <<>>
  /\ answers' = <<>>
  /\ LET first == FirstRequest(c)
         signed == Sign(props, first.request)
     IN IF first.throws
          THEN /\ outcome' = Threw(first.error)
               /\ pc' = "done"
               /\ logs' = (IF first.logged
                             THEN Log(props, "error", <<first.error.message>>,
                                      VMap(<<>>))
                             ELSE <<>>)
                            \o OperationLogs(props, c, Threw(first.error))
               /\ UNCHANGED <<request, sent>>
          ELSE /\ request' = signed
               /\ sent' = <<[request |-> signed, accumulated |-> 0]>>
               /\ pc' = "fetch"
               /\ logs' = SendingLog(props, signed)
               /\ UNCHANGED outcome
  /\ UNCHANGED <<props, batchVars, pureVars, uploadVars>>

\* A call against a provider with a finite bucket.
Invoke(c) ==
  \E b \in (IF c.op = "listObjects"
              THEN {x \in Buckets : x.pages = "finite"} ELSE {bucket}) :
    CallAgainst(c, b)

\* A _sendRequest that sends the request once more when fetch rejected
\* for the first time.
FetchRejectsThenRetries(err) ==
  /\ pc = "fetch"
  /\ IF Len(sent) = Len(answers) + 1 /\ Len(sent) < 2
       THEN /\ sent' = Append(sent, sent[Len(sent)])
            /\ UNCHANGED <<outcome, pc, logs>>
       ELSE /\ outcome' = Threw(SendRequest(request, [resolved |-> FALSE,
                                                      err |-> err]).error)
            /\ pc' = "done"
            /\ logs' = logs \o OperationLogs(props, call, outcome')
            /\ UNCHANGED sent
  /\ UNCHANGED <<bucket, call, request, remaining, token, all, answers>>
  /\ UNCHANGED <<props, batchVars, pureVars, uploadVars>>

\* fetch rejects: the catch block of _sendRequest rethrows.
FetchRejects(err) ==
  /\ pc = "fetch"
  /\ outcome' = Threw(SendRequest(request, [resolved |-> FALSE, err |-> err]).error)
  /\ pc' = "done"
  /\ logs' = logs \o OperationLogs(props, call, outcome')
  /\ UNCHANGED <<bucket, call, request, remaining, token, all, sent, answers>>
  /\ UNCHANGED <<props, batchVars, pureVars, uploadVars>>

\* fetch resolves for an operation that makes one request.
Responds ==
  /\ pc = "fetch"
  /\ call.op # "listObjects"
  /\ \E res \in Responses(call.op) :
       /\ answers' = Append(answers, res)
       /\ LET got == SendRequest(request, [resolved |-> TRUE, res |-> res])
          IN /\ outcome' = IF got.throws THEN Threw(got.error)
                           ELSE Result(call, got.res)
             /\ logs' = logs \o ResponseLogs(props, request, res)
                             \o OperationLogs(props, call, outcome')
  /\ pc' = "done"
  /\ UNCHANGED <<bucket, call, request, remaining, token, all, sent>>
  /\ UNCHANGED <<props, batchVars, pureVars, uploadVars>>

\* fetch resolves for a round of listObjects: the operation ends, or sends
\* the request of the next round. The model follows one round more than a
\* finite bucket or a budget can take.
ListObjectsResponds ==
  /\ pc = "fetch"
  /\ call.op = "listObjects"
  /\ Len(answers) <= (IF MaxObjects > MaxBudget THEN MaxObjects ELSE MaxBudget)
  /\ \E res \in ListingResponses(bucket, request) :
       /\ answers' = Append(answers, res)
       /\ LET got == SendRequest(request, [resolved |-> TRUE, res |-> res])
              round == ListObjectsRound(Unlimited(call.maxKeys), remaining,
                                        all, got.res)
              next == Sign(props, ListObjectsCall(round.remaining,
                                                  round.token).request)
              seen == logs \o ResponseLogs(props, request, res)
          IN IF got.throws
               THEN /\ outcome' = Threw(got.error)
                    /\ pc' = "done"
                    /\ logs' = seen \o OperationLogs(props, call, outcome')
                    /\ UNCHANGED <<request, remaining, token, all, sent>>
             ELSE IF round.ends
               THEN /\ outcome' = round.outcome
                    /\ pc' = "done"
                    /\ logs' = seen \o OperationLogs(props, call, outcome')
                    /\ UNCHANGED <<request, remaining, token, all, sent>>
             ELSE /\ remaining' = round.remaining
                  /\ token' = round.token
                  /\ all' = round.all
                  /\ request' = next
                  /\ sent' = Append(sent, [request |-> next,
                                           accumulated |-> Len(round.all)])
                  /\ logs' = seen \o SendingLog(props, next)
                  /\ UNCHANGED <<outcome, pc>>
  /\ UNCHANGED <<bucket, call>>
  /\ UNCHANGED <<props, batchVars, pureVars, uploadVars>>

\* setProps(p): the arguments are validated as by the constructor, then
\* the fields are assigned; nothing else of the client is touched.
SetProps(p) ==
  /\ pc \in {"idle", "fetch"}
  /\ IF ValidateConstructorParamsThrows(p)
       THEN UNCHANGED props
       ELSE props' = p
  /\ UNCHANGED <<bucket, call, pc, request, remaining, token, all, outcome,
                 sent, answers, logs>>
  /\ UNCHANGED <<batchVars, pureVars, uploadVars>>

\* new S3mini(cfg): the client at hand is the new one, unless the
\* constructor threw.
Construct(cfg) ==
  /\ pc = "idle"
  /\ IF ValidateConstructorParamsThrows(cfg)
          \/ EnsureValidUrl(cfg.endpoint).throws
       THEN UNCHANGED props
       ELSE props' = [cfg EXCEPT
                        !.endpoint = EnsureValidUrl(cfg.endpoint).endpoint]
  /\ UNCHANGED <<bucket, call, pc, request, remaining, token, all, outcome,
                 sent, answers, logs>>
  /\ UNCHANGED <<batchVars, pureVars, uploadVars>>

Init ==
  /\ BatchIdle
  /\ PureIdle
  /\ UploadIdle
  /\ bucket = [total |-> 0, style |-> "plain", pages |-> "finite"]
  /\ ClientIdle

Next ==
  \/ \E c \in Calls : Invoke(c)
  \/ \E err \in FetchErrors : FetchRejects(err)
  \/ Responds
  \/ ListObjectsResponds
  \/ \E p \in {Configs[i] : i \in DOMAIN Configs}
               \cup {[Configs[1] EXCEPT !.accessKeyId = <<" ">>]} :
       SetProps(p)

Spec == Init /\ [][Next]_vars

(***************************************************************************)
(* One application of a pure function                                      *)
(***************************************************************************)
MaxQuery == 2
MaxSiblings == 3
MaxHeaders == 3

\* The query maps a caller may pass: up to MaxQuery parameters.
QueryMaps ==
  LET names == {<<"a">>, <<"b">>, <<"A">>, <<"a", "b">>, <<"a", "-", "b">>,
                <<"a", "/">>}
      values == {<<>>, <<"1">>, <<"2">>, <<"/">>}
  IN UNION {[ks -> values] :
              ks \in {x \in SUBSET names : Cardinality(x) <= MaxQuery}}

\* The etag texts a provider may send: a body with or without an inner
\* quote, between leading and trailing quotes of every spelling, doubled or
\* absent.
ETagTexts ==
  LET quotes == {<<>>, <<"\"">>, <<"&", "q", "u", "o", "t", ";">>,
                 <<"&", "#", "3", "4", ";">>, <<"\"", "\"">>,
                 <<"&", "Q", "U", "O", "T", ";">>}
      bodies == {<<>>, <<"e">>, <<"a", "\"", "b">>}
  IN {l \o b \o t : l \in quotes, b \in bodies, t \in quotes}

\* The documents a provider may send: up to MaxSiblings elements side by
\* side, leaves and elements with children.
XmlDocs ==
  LET pool == {Leaf("K", "ey", <<"a">>), Leaf("K", "ey", <<"b">>),
               Leaf("N", "ame", <<>>),
               Elem("C", "ontents", XElems(<<Leaf("K", "ey", <<"a">>)>>)),
               Elem("C", "ontents",
                    XElems(<<Leaf("K", "ey", <<"b">>),
                             Leaf("C", "hecksumAlgorithm", <<"c">>)>>))}
  IN UNION {[1..n -> pool] : n \in 0..MaxSiblings}

ApplyBuildCanonicalQueryString(q) ==
  /\ fnName = "none"
  /\ fnName' = "_buildCanonicalQueryString"
  /\ fnInput' = q
  /\ fnOutput' = BuildCanonicalQueryString(q)
  /\ UNCHANGED <<batchVars, clientVars, uploadVars>>

ApplySanitizeETag(etag) ==
  /\ fnName = "none"
  /\ fnName' = "sanitizeETag"
  /\ fnInput' = etag
  /\ fnOutput' = SanitizeETag(etag)
  /\ UNCHANGED <<batchVars, clientVars, uploadVars>>

\* The header maps the signer may be given: up to MaxHeaders headers, names
\* that are a prefix of one another among them, values with white space.
HeaderMaps ==
  LET names == {<<"c">>, <<"c", "-", "b">>, <<"c", "b">>, <<"B">>, <<"e">>}
      values == {<<"1">>, <<" ", "2">>}
  IN UNION {[ks -> values] :
              ks \in {x \in SUBSET names : Cardinality(x) <= MaxHeaders}}

\* The two texts _sign builds from the header map.
ApplySign(headers) ==
  /\ fnName = "none"
  /\ fnName' = "_sign"
  /\ fnInput' = headers
  /\ fnOutput' = [canonicalHeaders |-> BuildCanonicalHeaders(headers),
                  signedHeaders |-> SignedHeaderNames(headers)]
  /\ UNCHANGED <<batchVars, clientVars, uploadVars>>

ApplyParseXml(es) ==
  /\ fnName = "none"
  /\ fnName' = "parseXml"
  /\ fnInput' = XElems(es)
  /\ fnOutput' = ParseXml(XElems(es))
  /\ UNCHANGED <<batchVars, clientVars, uploadVars>>

NextPure ==
  \/ \E q \in QueryMaps : ApplyBuildCanonicalQueryString(q)
  \/ \E etag \in ETagTexts : ApplySanitizeETag(etag)
  \/ \E es \in XmlDocs : ApplyParseXml(es)
  \/ \E headers \in HeaderMaps : ApplySign(headers)

SpecPure == Init /\ [][NextPure]_vars

(***************************************************************************)
(* Constructor and setProps                                                *)
(***************************************************************************)
\* The client is constructed and reconfigured with every endpoint a caller
\* may write, and with a blank access key id.
NextConfig ==
  LET Given == {[Configs[i] EXCEPT !.endpoint = e,
                                   !.accessKeyId = IF blank THEN <<" ">> ELSE @] :
                  i \in DOMAIN Configs, e \in Endpoints, blank \in BOOLEAN}
  IN \/ \E cfg \in Given : Construct(cfg)
     \/ \E p \in Given : SetProps(p)

SpecConfig == Init /\ [][NextConfig]_vars

(***************************************************************************)
(* listObjects against every provider                                      *)
(***************************************************************************)
\* listObjects(delimiter, prefix, maxKeys) against any provider, and what
\* fetch does with the request of each round.
NextListing ==
  \/ \E c \in {x \in Calls : x.op = "listObjects"}, b \in Buckets :
       CallAgainst(c, b)
  \/ ListObjectsResponds
  \/ \E err \in FetchErrors : FetchRejects(err)

SpecListing == Init /\ [][NextListing]_vars

(***************************************************************************)
(* Several uploadPart calls in flight                                      *)
(***************************************************************************)
MaxFlights == 2

\* The uploadPart calls of the multipart test: one key and upload id, a
\* part of the buffer or a string, any part number.
UploadCalls ==
  {c \in Calls : /\ c.op = "uploadPart"
                 /\ c.key = JsString(<<"k">>)
                 /\ c.uploadId = JsString(<<"u">>)
                 /\ c.data \in {JsString(<<"d">>), JsBuffer(<<>>)}
                 /\ c.partNumber.type = "number"}

\* The caller calls uploadPart while earlier calls may still await their
\* fetch; the call runs to its await, or to the error of its validation.
UploadPartInvoke(c) ==
  /\ Len(flights) < MaxFlights
  /\ LET first == FirstRequest(c)
     IN flights' =
          Append(flights,
                 IF first.throws
                   THEN [call |-> c, pc |-> "done", request |-> request,
                         outcome |-> Threw(first.error)]
                   ELSE [call |-> c, pc |-> "fetch",
                         request |-> Sign(props, first.request),
                         outcome |-> NoOutcome])
  /\ UNCHANGED <<arrivals, batchVars, clientVars, pureVars>>

\* The fetch of call i settles with fetched, whatever the other calls
\* await: _sendRequest and uploadPart resume with the locals of call i.
UploadPartSettles(i, fetched) ==
  /\ i \in DOMAIN flights
  /\ flights[i].pc = "fetch"
  /\ LET got == SendRequest(flights[i].request, fetched)
     IN flights' =
          [flights EXCEPT ![i].pc = "done",
                          ![i].outcome =
                            IF got.throws THEN Threw(got.error)
                            ELSE Result(flights[i].call, got.res)]
  /\ arrivals' = Append(arrivals, [flight |-> i, fetched |-> fetched])
  /\ UNCHANGED <<batchVars, clientVars, pureVars>>

UploadPartResponds ==
  \E i \in DOMAIN flights :
    \E res \in {r \in Responses("uploadPart") :
                  r.status \in {200, 500} /\ r.errCode = Absent} :
      UploadPartSettles(i, [resolved |-> TRUE, res |-> res])

UploadPartRejects ==
  \E i \in DOMAIN flights :
    \E err \in {e \in FetchErrors : e.name = "TimeoutError"} :
      UploadPartSettles(i, [resolved |-> FALSE, err |-> err])

NextUpload ==
  \/ \E c \in UploadCalls : UploadPartInvoke(c)
  \/ UploadPartResponds
  \/ UploadPartRejects

SpecUpload == Init /\ [][NextUpload]_vars

(***************************************************************************)
(* Properties of runInBatches                                              *)
(***************************************************************************)
TaskIds == 1..Len(tasks)

\* The tasks whose promise is outstanding.
InFlight == {i \in TaskIds : promise[i] = "pending"}

\* The outcome the runner owes task i.
OutcomeOf(i) ==
  IF tasks[i] = "fulfil"
    THEN [status |-> "fulfilled", value |-> i]
    ELSE [status |-> "rejected", reason |-> i]

\* The k-th batch of a partition of the input, in input order, into batches
\* of b tasks, the last one holding the rest.
Chunk(k, b) ==
  LET first == (k - 1) * b
      rest == Len(tasks) - first
  IN [j \in 1..(IF rest < b THEN rest ELSE b) |-> first + j]

\* C5: for every task sequence of length n and every batch size >= 1,
\* runInBatches calls each task exactly once and resolves with n outcomes,
\* outcome i being the settled result of task i.
C5_OneOutcomePerTaskInOrder ==
  (batchSize.n >= 1 /\ pcRun \in {"done", "rejected"}) =>
    /\ pcRun = "done"
    /\ \A i \in TaskIds : invoked[i] = 1
    /\ Len(allResults) = Len(tasks)
    /\ \A i \in TaskIds : allResults[i] = OutcomeOf(i)

\* C6: no task of batch N+1 is started before every task of batch N has
\* settled and, with a spacing interval, before the interval has passed
\* since batch N was started.
C6_NextBatchAfterSettleAndSpacing ==
  \A k \in 1..(Len(starts) - 1) :
    /\ \A j \in 1..Len(starts[k].fns) :
         promise[starts[k].fns[j]] \in {"fulfilled", "rejected"}
    /\ minIntervalMs > 0 => starts[k + 1].at >= starts[k].at + minIntervalMs

\* A second batch was started under a spacing interval, after a task of
\* the first batch settled later than the interval.
C6_Witness ==
  /\ Len(starts) >= 2
  /\ minIntervalMs > 0
  /\ Len(starts[1].fns) >= 2
  /\ starts[2].at > starts[1].at + minIntervalMs
  /\ InFlight # {}

\* C7: a failing task, rejecting or throwing when called, never makes
\* runInBatches fail nor keeps other tasks from running: the runner still
\* resolves with one outcome per task, the failed one tagged with its reason.
C7_TaskFailureNeverPropagates ==
  /\ pcRun # "rejected"
  /\ pcRun = "done" =>
       /\ Len(allResults) = Len(tasks)
       /\ \A i \in TaskIds :
            tasks[i] # "fulfil" => allResults[i] = OutcomeOf(i)

\* C8: for an integer batch size b >= 1 never more than b tasks are in
\* flight, and the batches are the input cut in order into runs of exactly
\* b tasks, the last one possibly shorter.
C8_AtMostBatchSizeInFlight ==
  (~batchSize.half /\ batchSize.n >= 1) =>
    /\ Cardinality(InFlight) <= batchSize.n
    /\ \A k \in 1..Len(starts) : starts[k].fns = Chunk(k, batchSize.n)

\* A full batch is in flight next to a shorter last batch still to come.
C8_Witness ==
  /\ ~batchSize.half
  /\ batchSize.n >= 2
  /\ Cardinality(InFlight) = batchSize.n
  /\ Len(starts) = 1
  /\ Len(tasks) = batchSize.n + 1

(***************************************************************************)
(* Properties of the operations                                            *)
(***************************************************************************)
LastAnswer == answers[Len(answers)]

KeyTakingOps ==
  {"getObject", "getObjectArrayBuffer", "getObjectWithETag", "getObjectRaw",
   "getContentLength", "objectExists", "getEtag", "putObject",
   "deleteObject", "getMultipartUploadId", "uploadPart",
   "completeMultipartUpload", "abortMultipartUpload"}

IsNonEmptyString(key) == key.type = "string" /\ Trim(key.str) # <<>>

\* C1: when the response has a status that is neither 2xx nor tolerated,
\* the caller receives a S3ServiceError with that status, the provider's
\* x-amz-error-code ('Unknown' when the header is absent) and the raw body.
C1_ServiceErrorReachesCaller ==
  (/\ pc = "done"
   /\ answers # <<>>
   /\ ~Ok(LastAnswer.status)
   /\ LastAnswer.status \notin request.tolerated)
  => /\ outcome.kind = "threw"
     /\ outcome.error.name = "S3ServiceError"
     /\ outcome.error.status = LastAnswer.status
     /\ outcome.error.serviceCode =
          (IF LastAnswer.errCode.present THEN LastAnswer.errCode.v
           ELSE "Unknown")
     /\ outcome.error.body = LastAnswer.body

\* C2: an operation that takes a key, called with a key that is not a
\* non-empty string, throws a validation error and sends no request (so no
\* request on the bucket root either).
C2_InvalidKeySendsNoRequest ==
  (/\ pc # "idle"
   /\ call.op \in KeyTakingOps
   /\ ~IsNonEmptyString(call.key))
  => /\ sent = <<>>
     /\ pc = "done"
     /\ outcome.kind = "threw"
     /\ outcome.error.name = "TypeError"

\* C3: every round of listObjects asks for max-keys = min(remaining budget,
\* 1000), the remaining budget being N minus the entries accumulated so far
\* (1000 when there is no budget), and with a budget N >= 1 against a
\* provider holding T objects the sequence returned has min(N, T) entries.
C3_ListingReturnsMinOfBudgetAndTotal ==
  call.op = "listObjects"
  => /\ \A i \in 1..Len(sent) :
          sent[i].request.query["max-keys"] =
            NumToText(IF call.maxKeys.type = "number" /\ call.maxKeys.num > 0
                        THEN Min(call.maxKeys.num - sent[i].accumulated,
                                 S3Ceiling)
                        ELSE S3Ceiling)
     /\ (/\ pc = "done"
         /\ call.maxKeys.type = "number"
         /\ call.maxKeys.num >= 1
         /\ outcome.kind = "returned"
         /\ outcome.value.is = "array")
        => Len(outcome.value.v) = Min(call.maxKeys.num, bucket.total)

\* A listing document without any Contents element.
IsEmptyListing(doc) ==
  /\ doc.kind = "elems"
  /\ Len(doc.elems) = 1
  /\ doc.elems[1].p \o doc.elems[1].r = "ListBucketResult"
  /\ \A k \in 1..Len(doc.elems[1].inner.elems) :
       doc.elems[1].inner.elems[k].r # "ontents"

\* The operation returned a value of the given kind.
ReturnedIs(is) == outcome.kind = "returned" /\ outcome.value.is = is

\* C4: listObjects returns null exactly when a listing request was answered
\* 404; when every round is answered 200 with a listing that holds no
\* Contents element it returns the empty sequence.
C4_NullIffNotFound ==
  (call.op = "listObjects" /\ pc = "done")
  => /\ ReturnedIs("null")
          <=> (\E i \in 1..Len(answers) : answers[i].status = 404)
     /\ (/\ answers # <<>>
         /\ Len(answers) = Len(sent)
         /\ \A i \in 1..Len(answers) :
              answers[i].status = 200 /\ IsEmptyListing(answers[i].body))
        => (ReturnedIs("array") /\ outcome.value.v = <<>>)

\* listObjects returned null on a 404 in its second round, after a first
\* page with entries.
C4_Witness ==
  /\ call.op = "listObjects"
  /\ pc = "done"
  /\ Len(answers) = 2
  /\ answers[1].status = 200
  /\ all # <<>>
  /\ answers[2].status = 404
  /\ ReturnedIs("null")

IsErrorDocument(doc) ==
  /\ doc.kind = "elems"
  /\ Len(doc.elems) = 1
  /\ doc.elems[1].p \o doc.elems[1].r = "Error"
  /\ \E k \in 1..Len(doc.elems[1].inner.elems) :
       doc.elems[1].inner.elems[k].r = "essage"

MessageOf(doc) ==
  LET es == doc.elems[1].inner.elems
  IN es[CHOOSE k \in 1..Len(es) : es[k].r = "essage"].inner.text

\* The error e carries the message of the error document doc: as its own
\* detail, or in the raw body it or its cause keeps.
CarriesMessage(e, doc) ==
  \/ e.detail = VStr(MessageOf(doc))
  \/ e.name = "S3ServiceError" /\ e.body = doc
  \/ /\ e.name = "S3NetworkError"
     /\ e.cause.error.name = "S3ServiceError"
     /\ e.cause.error.body = doc

\* C10: when the body of the response to completeMultipartUpload or to
\* abortMultipartUpload is an error document, the operation throws an error
\* that carries the provider's message; it returns no value.
C10_ErrorDocumentFailsTheOperation ==
  (/\ pc = "done"
   /\ call.op \in {"completeMultipartUpload", "abortMultipartUpload"}
   /\ answers # <<>>
   /\ IsErrorDocument(LastAnswer.body))
  => /\ outcome.kind = "threw"
     /\ CarriesMessage(outcome.error, LastAnswer.body)

\* C11: when the last request was answered with a status of its tolerated
\* set, _sendRequest does not raise, and the operation maps the status:
\* getObject and getObjectArrayBuffer return null on 404, 412 and 304;
\* objectExists returns false on 404, null on 412 and 304, true otherwise;
\* bucketExists returns true on 200 and false on 404 and 403.
C11_ToleratedStatusIsMapped ==
  (/\ pc = "done"
   /\ answers # <<>>
   /\ Len(answers) = Len(sent)
   /\ LastAnswer.status \in request.tolerated)
  => LET status == LastAnswer.status
     IN /\ ~(outcome.kind = "threw"
               /\ outcome.error.name \in {"S3NetworkError", "S3ServiceError"})
        /\ (call.op \in {"getObject", "getObjectArrayBuffer"}
               /\ status \in {404, 412, 304})
             => ReturnedIs("null")
        /\ (call.op = "objectExists")
             => IF status = 404
                  THEN ReturnedIs("boolean") /\ outcome.value.v = FALSE
                ELSE IF status \in {412, 304}
                  THEN ReturnedIs("null")
                ELSE ReturnedIs("boolean") /\ outcome.value.v = TRUE
        /\ (call.op = "bucketExists")
             => /\ ReturnedIs("boolean")
                /\ outcome.value.v = (status = 200)
                /\ status \in {404, 403} => outcome.value.v = FALSE

\* objectExists was answered 412 and returned null.
C11_Witness ==
  /\ call.op = "objectExists"
  /\ pc = "done"
  /\ answers # <<>>
  /\ LastAnswer.status = 412
  /\ LastAnswer.status \in request.tolerated
  /\ ReturnedIs("null")

\* C12: every step in which fetch rejects ends the call with a S3NetworkError
\* thrown to the caller: "Could not resolve host" when the code of the
\* rejection (its own, else its cause's) is ENOTFOUND or EAI_AGAIN, "S3
\* endpoint unreachable" when it is ETIMEDOUT or ECONNREFUSED, "Unknown
\* network failure" for every other code and for a rejection without a code
\* (the abort timeout); the error carries that code, and the rejection
\* itself as its cause.
C12_FetchRejectionIsClassified ==
  [][\A err \in FetchErrors :
       FetchRejects(err)
       => LET code == IF err.code.present THEN err.code
                      ELSE IF err.cause.present THEN err.cause.code
                      ELSE Absent
              thrown == outcome'.error
          IN /\ pc' = "done"
             /\ outcome'.kind = "threw"
             /\ thrown.name = "S3NetworkError"
             /\ thrown.code = code
             /\ thrown.message =
                  (IF code.present /\ code.v \in {"ENOTFOUND", "EAI_AGAIN"}
                     THEN "Could not resolve host"
                   ELSE IF code.present
                           /\ code.v \in {"ETIMEDOUT", "ECONNREFUSED"}
                     THEN "S3 endpoint unreachable"
                   ELSE "Unknown network failure")
             /\ thrown.cause.present
             /\ thrown.cause.error = err]_vars

\* fetch rejected with 'fetch failed' whose cause has the code ECONNREFUSED,
\* and the caller got the endpoint-unreachable S3NetworkError.
C12_Witness ==
  /\ pc = "done"
  /\ outcome.kind = "threw"
  /\ outcome.error.name = "S3NetworkError"
  /\ outcome.error.message = "S3 endpoint unreachable"
  /\ outcome.error.cause.present
  /\ outcome.error.cause.error.name = "TypeError"
  /\ outcome.error.cause.error.message = "fetch failed"
  /\ outcome.error.cause.error.cause.code = Present("ECONNREFUSED")

(***************************************************************************)
(* Properties of the log                                                   *)
(***************************************************************************)
\* The text hay holds the text needle as a run of consecutive characters.
Contains(hay, needle) ==
  \E i \in 0..(Len(hay) - Len(needle)) :
    SubSeq(hay, i + 1, i + Len(needle)) = needle

\* Every string held by a logged value, at any depth.
RECURSIVE StringsOf(_)
StringsOf(v) ==
  CASE v.t = "str" -> {v.s}
    [] v.t = "map" -> UNION {StringsOf(v.m[k]) : k \in DOMAIN v.m}
    [] v.t = "arr" -> UNION {StringsOf(v.a[i]) : i \in 1..Len(v.a)}
    [] OTHER -> {}

\* Every string of a log entry.
EntryTexts(e) == {e.message} \cup StringsOf(e.details) \cup StringsOf(e.context)

\* C13: no log entry holds the secret access key of a configuration of the
\* client, nor the first five characters (more than the first four) of its
\* access key id.
C13_LogsHideTheCredentials ==
  \A i \in 1..Len(logs) : \A t \in EntryTexts(logs[i]) :
    \A k \in DOMAIN Configs :
      /\ ~Contains(t, Configs[k].secretAccessKey)
      /\ ~Contains(t, SubSeq(Configs[k].accessKeyId, 1, 5))

\* In a logged value every key whose name is, ignoring case, one of the
\* sensitive names has the placeholder as its value, at any depth.
RECURSIVE KeysRedacted(_)
KeysRedacted(v) ==
  CASE v.t = "map" ->
         \A k \in DOMAIN v.m :
           IF LowerName(k) \in {LowerName(n) : n \in SENSITIVE_KEYS_REDACTED}
             THEN v.m[k] = VStr(REDACTED)
             ELSE KeysRedacted(v.m[k])
    [] v.t = "arr" -> \A i \in 1..Len(v.a) : KeysRedacted(v.a[i])
    [] OTHER -> TRUE

\* C14: in every log entry the value of every key named, ignoring case,
\* accessKeyId, secretAccessKey, sessionToken, password or token is
\* '[REDACTED]', at every depth of details and of context.
C14_SensitiveKeysAreRedacted ==
  \A i \in 1..Len(logs) :
    KeysRedacted(logs[i].details) /\ KeysRedacted(logs[i].context)

(***************************************************************************)
(* Properties of the signed request                                        *)
(***************************************************************************)
\* C15: in every request sent, the x-amz-content-sha256 header equals the
\* payload hash in the last line of the canonical request, and it is
\* UNSIGNED-PAYLOAD exactly when the body has zero length (an empty string
\* or an empty Buffer), the hex SHA-256 of the body otherwise.
C15_PayloadHashIsSentinelIffEmptyBody ==
  \A i \in 1..Len(sent) :
    LET r == sent[i].request
        header == r.signedHeaders["x-amz-content-sha256"]
        bytes == XmlText(r.body)
    IN /\ header = r.canonicalRequest.payload
       /\ header = UNSIGNED_PAYLOAD <=> Len(bytes) = 0
       /\ Len(bytes) > 0 => header = Hash(bytes)

(***************************************************************************)
(* Properties of the pure functions                                        *)
(***************************************************************************)
\* The pairs enc(key)=enc(value) of a query map, for the keys in names,
\* in ascending order of the encoded key, joined by "&".
RECURSIVE JoinedByEncodedKey(_, _)
JoinedByEncodedKey(q, names) ==
  IF names = {} THEN <<>>
  ELSE LET first == CHOOSE k \in names :
                      \A other \in names \ {k} :
                        TextLess(EncodeURIComponent(k),
                                 EncodeURIComponent(other))
           pair == EncodeURIComponent(first) \o <<"=">>
                     \o EncodeURIComponent(q[first])
       IN IF names = {first} THEN pair
          ELSE pair \o <<"&">> \o JoinedByEncodedKey(q, names \ {first})

\* C16: the canonical query string of a query map lists enc(key)=enc(value)
\* for every key in ascending order of the encoded key alone, joined by "&",
\* and is empty for the empty map.
C16_QuerySortedByEncodedKey ==
  fnName = "_buildCanonicalQueryString"
  => fnOutput = JoinedByEncodedKey(fnInput, DOMAIN fnInput)

\* C17: of the elements of a document, the k >= 1 siblings that share an
\* effective key are all decoded into the field of that key, in source
\* order: a sequence of the k values when k >= 2; for k = 1 the value
\* itself, or a one-element sequence for the always-sequence key contents.
C17_SiblingsAccumulateInOrder ==
  (fnName = "parseXml" /\ fnInput.elems # <<>>)
  => LET es == fnInput.elems
         KeyOf(e) == Lower(e.p) \o e.r
         ValueOf(e) == IF e.inner.kind = "text" /\ e.inner.text = <<>>
                         THEN VStr(<<>>)
                         ELSE ParseXml(e.inner)
     IN /\ fnOutput.t = "map"
        /\ \A i \in 1..Len(es) :
             LET key == KeyOf(es[i])
                 at == SelectSeq([j \in 1..Len(es) |-> j],
                                 LAMBDA j : KeyOf(es[j]) = key)
                 values == [j \in 1..Len(at) |-> ValueOf(es[at[j]])]
             IN /\ key \in DOMAIN fnOutput.m
                /\ fnOutput.m[key] =
                     (IF Len(at) >= 2 \/ key = "contents"
                        THEN VArr(values)
                        ELSE values[1])

\* C18: every entry listObjects returns carries its ETag with the XML
\* entities unescaped and without the surrounding double quotes, whether the
\* provider wrote the quotes literally or as &quot;.
C18_ListedETagsAreUnquoted ==
  (call.op = "listObjects" /\ pc = "done" /\ ReturnedIs("array"))
  => \A i \in 1..Len(outcome.value.v) :
       Get(outcome.value.v[i], "eTag") = VStr(<<"e">>)

\* C19: sanitizeETag removes one leading quote token (", &quot; or &#34;)
\* when the text starts with one, and one trailing quote token when what is
\* left ends with one, and changes no other character.
C19_SanitizeETagStripsOneQuoteEachSide ==
  fnName = "sanitizeETag"
  => LET tokens == {<<"\"">>, <<"&", "q", "u", "o", "t", ";">>,
                    <<"&", "#", "3", "4", ";">>}
         OrNone(found) == IF found = {} THEN {<<>>} ELSE found
     IN \E l \in OrNone({q \in tokens : StartsWith(fnInput, q)}) :
          LET rest == SubSeq(fnInput, Len(l) + 1, Len(fnInput))
          IN \E t \in OrNone({q \in tokens : EndsWith(rest, q)}) :
               fnInput = l \o fnOutput \o t

\* sanitizeETag was given &quot;e&quot; and returned e.
C19_Witness ==
  /\ fnName = "sanitizeETag"
  /\ fnInput = <<"&", "q", "u", "o", "t", ";", "e", "&", "q", "u", "o", "t", ";">>
  /\ fnOutput = <<"e">>

\* The request r carries the endpoint, the access key id, the region and
\* the secret of the configuration c.
SignedUnder(r, c) ==
  /\ r.url.endpoint = c.endpoint
  /\ r.signedHeaders["host"] = <<c.endpoint.host>>
  /\ StartsWith(r.signedHeaders["Authorization"],
                <<"AWS4-HMAC-SHA256 Credential=">> \o c.accessKeyId
                  \o <<"/", DateStamp, "/", c.region, "/s3/aws4_request">>)
  /\ r.signature.signingKey.region = c.region
  /\ r.signature.signingKey.secret = c.secretAccessKey

\* C20: whatever the interleaving of setProps with a call, every request
\* sent carries the endpoint, the access key id, the region and the secret
\* of one single configuration, and a step that changes the configuration
\* changes nothing of the request in flight nor of the requests sent before.
C20_RequestSignedUnderOneConfiguration ==
  /\ [](\A i \in 1..Len(sent) :
          \E k \in DOMAIN Configs : SignedUnder(sent[i].request, Configs[k]))
  /\ [][props' # props => (request' = request /\ sent' = sent)]_vars

\* listObjects sent its first request under the first configuration and,
\* setProps having been called while it was in flight, its second request
\* under the second one.
C20_Witness ==
  /\ call.op = "listObjects"
  /\ Len(sent) = 2
  /\ SignedUnder(sent[1].request, Configs[1])
  /\ SignedUnder(sent[2].request, Configs[2])
  /\ props = Configs[2]


(***************************************************************************)
(* Properties of uploadPart calls in flight together                       *)
(***************************************************************************)
\* The position in arrivals at which call i was settled, 0 before.
ArrivalOf(i) ==
  IF \E k \in DOMAIN arrivals : arrivals[k].flight = i
    THEN CHOOSE k \in DOMAIN arrivals : arrivals[k].flight = i
    ELSE 0

\* Call i got past its validation and was given a request of its own.
Requested(i) == flights[i].pc = "fetch" \/ ArrivalOf(i) # 0

\* C21: whatever number of uploadPart calls is in flight and in whatever
\* order their responses arrive, a call whose fetch resolved with a 2xx
\* status returns its own part number with the sanitized etag of its own
\* response; the request of a call holds its own upload id, part number,
\* body and length; a step of one call leaves the record of every other
\* call and the configuration of the client as they were.
C21_ConcurrentUploadPartsAreIndependent ==
  /\ [](\A i \in DOMAIN flights :
          /\ Requested(i) =>
                LET c == flights[i].call
                    r == flights[i].request
                IN /\ r.method = "PUT"
                   /\ r.query = ("uploadId" :> c.uploadId.str)
                                  @@ ("partNumber" :> NumToText(c.partNumber.num))
                   /\ r.url.query = r.query
                   /\ r.body = BodyOf(c.data)
                   /\ r.headers = ("Content-Length" :> NumToText(Len(c.data.str)))
          /\ (ArrivalOf(i) # 0 /\ arrivals[ArrivalOf(i)].fetched.resolved
                /\ Ok(arrivals[ArrivalOf(i)].fetched.res.status)) =>
                LET own == arrivals[ArrivalOf(i)].fetched.res
                IN /\ flights[i].outcome.kind = "returned"
                   /\ flights[i].outcome.value.is = "part"
                   /\ flights[i].outcome.value.v.partNumber
                        = flights[i].call.partNumber.num
                   /\ flights[i].outcome.value.v.etag
                        = SanitizeETag(IF own.etag.present THEN own.etag.v
                                       ELSE <<>>))
  /\ [][/\ props' = props
        /\ \A i \in DOMAIN flights :
             flights'[i] # flights[i] =>
               /\ Len(arrivals') = Len(arrivals) + 1
               /\ arrivals'[Len(arrivals')].flight = i
               /\ flights'[i].call = flights[i].call
               /\ flights'[i].request = flights[i].request
               /\ \A j \in DOMAIN flights \ {i} : flights'[j] = flights[j]]_vars

\* Two calls were in flight together, the later call was answered first,
\* and the two were answered with different etags.
C21_Witness ==
  /\ Len(flights) >= 2
  /\ Len(arrivals) >= 2
  /\ arrivals[1].flight = 2
  /\ arrivals[2].flight = 1
  /\ arrivals[1].fetched.resolved /\ arrivals[2].fetched.resolved
  /\ Ok(arrivals[1].fetched.res.status) /\ Ok(arrivals[2].fetched.res.status)
  /\ arrivals[1].fetched.res.etag # arrivals[2].fetched.res.etag
  /\ flights[1].outcome.kind = "returned"
  /\ flights[2].outcome.kind = "returned"
  /\ flights[1].outcome.value.v.etag # flights[2].outcome.value.v.etag
  /\ flights[1].call.partNumber # flights[2].call.partNumber

(***************************************************************************)
(* Properties of the number of requests                                    *)
(***************************************************************************)
\* C22: an operation other than listObjects hands at most one request to
\* fetch, however the call ends; listObjects hands one request per round;
\* a request is sent only when the operation is called or when a round of
\* listObjects was answered with a 2xx status, never after a rejection of
\* fetch or an error status, and never two for one answer.
C22_NoRequestIsSentAgain ==
  /\ [](/\ call.op # "listObjects" => Len(sent) <= 1
        /\ pc = "fetch" => Len(sent) = Len(answers) + 1
        /\ pc = "done" => Len(sent) \in {Len(answers), Len(answers) + 1}
        /\ (pc = "done" /\ Len(sent) = Len(answers) + 1) =>
             /\ outcome.kind = "threw"
             /\ outcome.error.name = "S3NetworkError")
  /\ [][sent' # sent =>
         /\ Len(sent') = Len(sent) + 1
         /\ \A k \in DOMAIN sent : sent'[k] = sent[k]
         /\ \/ pc = "idle" /\ sent = <<>>
            \/ /\ call.op = "listObjects"
               /\ Len(answers') = Len(answers) + 1
               /\ Ok(answers'[Len(answers')].status)]_vars

\* Calls that ended after one request each: on a rejection of fetch, on an
\* error status, on a tolerated status; and a listObjects of two rounds.
C22_Witness ==
  /\ pc = "done"
  /\ \/ /\ call.op = "putObject" /\ Len(sent) = 1 /\ answers = <<>>
        /\ outcome.kind = "threw"
     \/ /\ call.op = "listObjects" /\ Len(sent) = 2 /\ Len(answers) = 2
        /\ outcome.kind = "threw"

(***************************************************************************)
(* Properties of the pagination of listObjects                             *)
(***************************************************************************)
\* The children named tag of the ListBucketResult element of a page.
ChildrenOfListing(doc, tag) ==
  SelectSeq(doc.elems[1].inner.elems, LAMBDA e : e.p \o e.r = tag)

\* The keys of the Contents elements of a page, in document order.
PageKeys(doc) ==
  LET contents == ChildrenOfListing(doc, "Contents")
  IN [k \in 1..Len(contents) |-> contents[k].inner.elems[1].inner.text]

\* The keys of the pages pages, page after page.
RECURSIVE KeysOfPages(_)
KeysOfPages(pages) ==
  IF pages = <<>> THEN <<>>
  ELSE PageKeys(Head(pages).body) \o KeysOfPages(Tail(pages))

\* C23: the first request of listObjects has no continuation-token, every
\* later request has the NextContinuationToken of the response before it,
\* and the sequence returned holds the entries of the pages received, page
\* after page and in the order of each page.
C23_PagesAreChainedAndConcatenated ==
  call.op = "listObjects"
  => /\ \A k \in 1..Len(sent) :
          IF k = 1
            THEN "continuation-token" \notin DOMAIN sent[k].request.query
            ELSE /\ "continuation-token" \in DOMAIN sent[k].request.query
                 /\ <<sent[k].request.query["continuation-token"]>> =
                      [j \in 1..1 |->
                         ChildrenOfListing(answers[k - 1].body,
                                           "NextContinuationToken")[j]
                           .inner.text]
     /\ (pc = "done" /\ ReturnedIs("array"))
        => /\ Len(outcome.value.v) = Len(KeysOfPages(answers))
           /\ \A k \in 1..Len(outcome.value.v) :
                Get(outcome.value.v[k], "key") = VStr(KeysOfPages(answers)[k])


\* The page that was answered last is truncated and names a next page.
LastPageContinues(as) ==
  LET page == as[Len(as)].body
  IN /\ ChildrenOfListing(page, "IsTruncated") # <<>>
     /\ ChildrenOfListing(page, "IsTruncated")[1].inner.text = TrueText
     /\ ChildrenOfListing(page, "NextContinuationToken") # <<>>

\* listObjects sends the request of a further round in this step.
NextRound ==
  /\ call.op = "listObjects"
  /\ sent # <<>>
  /\ Len(sent') = Len(sent) + 1

\* The budget of the call, when it has one.
HasBudget == call.maxKeys.type = "number" /\ call.maxKeys.num > 0

\* C24: listObjects sends the request of a further round only after a
\* truncated page that carries a continuation token and while its remaining
\* budget is positive; with a budget, a round that received at least one
\* entry leaves less of the budget than it found, so that against a provider
\* that never stops truncating at most as many requests are sent as the
\* budget counts.
C24_ListingStopsAndTerminates ==
  /\ [][NextRound =>
          /\ LastPageContinues(answers')
          /\ remaining'.inf \/ remaining'.n > 0]_vars
  /\ [][(NextRound /\ HasBudget
           /\ PageKeys(answers'[Len(answers')].body) # <<>>)
         => remaining'.n < remaining.n]_vars
  /\ []((call.op = "listObjects" /\ bucket.pages = "endless" /\ HasBudget)
         => Len(sent) <= call.maxKeys.num)

(***************************************************************************)
(* Properties of what is signed and what is sent                           *)
(***************************************************************************)
\* The names of the SignedHeaders list of request r.
ListedNames(r) ==
  {r.canonicalRequest.signedHeaders[i] :
     i \in {j \in DOMAIN r.canonicalRequest.signedHeaders : j % 2 = 1}}

\* The headers handed to fetch with request r, but Authorization.
SentHeaders(r) == DOMAIN r.signedHeaders \ {"Authorization"}

\* The query of the final URL of r is the query that was signed, no if-*
\* key is in it, and the path of the URL is the path that was signed.
UrlIsTheSignedOne(r) ==
  /\ r.canonicalRequest.query =
       BuildCanonicalQueryString(
         [k \in {QueryNameText(n) : n \in DOMAIN r.url.query} |->
            r.url.query[CHOOSE n \in DOMAIN r.url.query :
                          QueryNameText(n) = k]])
  /\ r.method \in {"GET", "HEAD"} =>
       \A n \in DOMAIN r.url.query : LowerName(n) \notin IfHeaders
  /\ r.url.pathname = r.canonicalRequest.pathname

\* C25 as stated: for every request handed to fetch, the header names
\* but Authorization are the names of the SignedHeaders list, every header
\* value is the value of the canonical headers, the query of the URL is the
\* canonical query, with no if-* key in either, and the path of the URL is
\* the canonical path.
C25_SentIsWhatWasSigned ==
  \A k \in DOMAIN sent :
    LET r == sent[k].request
    IN /\ {LowerName(n) : n \in SentHeaders(r)} = ListedNames(r)
       /\ Cardinality(r.canonicalRequest.headers) = Cardinality(SentHeaders(r))
       /\ \A n \in SentHeaders(r) :
            <<LowerName(n), r.signedHeaders[n]>> \in r.canonicalRequest.headers
       /\ UrlIsTheSignedOne(r)

\* C25, amended: the same, every header value being the value of the
\* canonical headers once the white space around it is removed.
C25_SentIsWhatWasSignedUpToTrim ==
  \A k \in DOMAIN sent :
    LET r == sent[k].request
    IN /\ {LowerName(n) : n \in SentHeaders(r)} = ListedNames(r)
       /\ Cardinality(r.canonicalRequest.headers) = Cardinality(SentHeaders(r))
       /\ \A n \in SentHeaders(r) :
            <<LowerName(n), Trim(r.signedHeaders[n])>>
              \in r.canonicalRequest.headers
       /\ UrlIsTheSignedOne(r)

\* A GET was sent with a conditional header given in opts, and a GET was
\* sent with a query parameter given in opts.
C25_Witness ==
  /\ sent # <<>>
  /\ sent[1].request.method = "GET"
  /\ \/ /\ "If-Match" \in DOMAIN sent[1].request.signedHeaders
        /\ sent[1].request.signedHeaders["If-Match"] = <<" ", "e">>
        /\ sent[1].request.url.query = EmptyMap
     \/ /\ "versionId" \in DOMAIN sent[1].request.url.query
        /\ "If-Match" \notin DOMAIN sent[1].request.signedHeaders

(***************************************************************************)
(* Properties of the stored endpoint                                       *)
(***************************************************************************)
\* C26: whatever constructor and setProps calls succeeded, this.endpoint
\* has a scheme, is a text new URL accepts, which _sign needs, and has no
\* trailing slash.
C26_StoredEndpointIsValid ==
  /\ props.endpoint.scheme \in {"https://", "http://"}
  /\ Parses(props.endpoint)
  /\ props.endpoint.slashes = 0

(***************************************************************************)
(* Properties of the nesting parseXml decodes                              *)
(***************************************************************************)
\* The decoding that keeps the nesting of the document: every element is
\* a field of the map of the element that contains it.
RECURSIVE NestedDecode(_)
RECURSIVE NestedFields(_, _)
NestedFields(es, result) ==
  IF es = <<>> THEN result
  ELSE LET e == Head(es)
           node == IF e.inner.kind = "text" /\ e.inner.text = <<>>
                     THEN VStr(<<>>)
                     ELSE NestedDecode(e.inner)
       IN NestedFields(Tail(es), Accumulate(result, Lower(e.p) \o e.r, node))

NestedDecode(doc) ==
  LET result == NestedFields(doc.elems, <<>>)
  IN IF DOMAIN result # {} THEN VMap(result)
     ELSE VStr(UnescapeXml(doc.text))

\* C27: parseXml decodes every element as a field of the map of its parent
\* element, whatever the tags of its descendants are: a Contents element
\* with a ChecksumAlgorithm child is one contents entry with its children
\* inside.
C27_DecodingPreservesNesting ==
  fnName = "parseXml" => fnOutput = NestedDecode(fnInput)

(***************************************************************************)
(* Properties of the order of the signed headers                           *)
(***************************************************************************)
\* The parts of text between the separators sep.
RECURSIVE Split(_, _)
Split(text, sep) ==
  IF \E i \in DOMAIN text : text[i] = sep
    THEN LET i == CHOOSE j \in DOMAIN text :
                    text[j] = sep /\ \A h \in 1..(j - 1) : text[h] # sep
         IN <<SubSeq(text, 1, i - 1)>>
              \o Split(SubSeq(text, i + 1, Len(text)), sep)
    ELSE <<text>>

BudgetNotPositive ==
  /\ call.op = "listObjects"
  /\ call.maxKeys.type = "number"
  /\ call.maxKeys.num <= 0

\* C29: listObjects called with maxKeys 0 or negative does what it does
\* without maxKeys: it throws no validation error, its remaining stays
\* Infinity, every round asks for max-keys=1000, and it returns its
\* sequence only after a page that is not truncated or names no next page.
C29_NonPositiveBudgetIsNoBudget ==
  BudgetNotPositive
  => /\ sent # <<>>
     /\ remaining = Infinity
     /\ \A k \in DOMAIN sent :
          sent[k].request.query["max-keys"] = NumToText(S3Ceiling)
     /\ (pc = "done" /\ outcome.kind = "threw")
          => outcome.error.name # "TypeError"
     /\ (pc = "done" /\ ReturnedIs("array"))
          => ~LastPageContinues(answers)

\* A listObjects with maxKeys 0 went through two truncated pages of one
\* entry and returned all three entries of the bucket.
C29_Witness ==
  /\ BudgetNotPositive
  /\ call.maxKeys.num = 0
  /\ pc = "done"
  /\ ReturnedIs("array")
  /\ Len(sent) = 3
  /\ Len(outcome.value.v) = 3

(***************************************************************************)
(* Properties of runInBatches with a batch size that is no count           *)
(***************************************************************************)
\* batchSize is zero, negative or fractional.
NotAPositiveInteger == batchSize.half \/ batchSize.n <= 0

\* C30: with a batchSize that is zero, negative or fractional runInBatches
\* starts one batch only, after the iterable is drained, holding all tasks
\* in input order, so that all of them are in flight together; every task
\* is called exactly once and the runner resolves with the outcomes in
\* input order.
C30_OneBatchWhenBatchSizeIsNoCount ==
  NotAPositiveInteger
  => /\ Len(starts) <= 1
     /\ \A k \in DOMAIN starts :
          /\ starts[k].fns = [j \in TaskIds |-> j]
          /\ \A i \in TaskIds : invoked[i] = 1
     /\ starts = <<>> => \A i \in TaskIds : invoked[i] = 0
     /\ pcRun \in {"done", "rejected"} =>
          /\ pcRun = "done"
          /\ \A i \in TaskIds : invoked[i] = 1
          /\ Len(allResults) = Len(tasks)
          /\ \A i \in TaskIds : allResults[i] = OutcomeOf(i)
====
